---- MODULE Spec2Model ----
(***************************************************************************)
(* Aer Lemmings: the per-frame simulation of src/src/GameEngine.ts and the *)
(* Passenger entity (src/unnamed/part_002, lines 136-374).                 *)
(*                                                                         *)
(* Units.  Time is counted in 1/100 s, lengths in 1/100 px, velocities in  *)
(* px/s (= length units per time unit), so that every quantity the code    *)
(* computes with the frame times used here is an exact integer:            *)
(*   velocity.y += 500 * dt      becomes  vy + 5 * dt                      *)
(*   delta = velocity * dt       becomes  v * dt                           *)
(***************************************************************************)
EXTENDS Integers, Sequences, FiniteSets, TLC

Px(n) == n * 100
Abs(n) == IF n < 0 THEN -n ELSE n
Max(a, b) == IF a > b THEN a ELSE b

(***************************************************************************)
(* Bounds of the model.                                                    *)
(***************************************************************************)
\* GameEngine.totalPassengers is 100; the model runs the same code with the
\* field set to a small cap: AgentCap in the full game, CrowdCap where
\* several agents are followed through one level.
AgentCap == 1
CrowdCap == 2
\* Abilities the player hands out in one level of a crowd run.
MaxAssigned == 1
\* The last level is 10 in the code; the model plays FinalLevel levels.
FinalLevel == 2
\* The wall clock (Date.now) is not advanced beyond MaxNow.
MaxNow == 30000
\* A falling agent is followed until its y coordinate exceeds MaxFallPx px.
MaxFallPx == 600

(***************************************************************************)
(* Program constants.                                                      *)
(***************************************************************************)
levelTimeLimit == 30000
spawnInterval == 50
gateWidth == 10000
uiHeight == 12000
PassengerWidth == 2400
PassengerHeight == 3200
speed == 50
PowerCooldown == 200
MaxDeltaTime == 10

\* The canvas handed to the constructor (index.ts uses 1200 x 700; the
\* engine takes any size).
NarrowCanvas == [width |-> Px(500), height |-> Px(355)]
WideCanvas == [width |-> Px(700), height |-> Px(355)]

MENU == "menu"
PLAYING == "playing"
PAUSED == "paused"
LEVEL_COMPLETE == "level_complete"
GAME_OVER == "game_over"
VICTORY == "victory"
GameStates == {MENU, PLAYING, PAUSED, LEVEL_COMPLETE, GAME_OVER, VICTORY}

NoPower == "none"
Powers == {"bridge", "doorBreaker", "securityBriber"}
SuperPowers == Powers \cup {NoPower}

VARIABLES
  canvas,     \* the canvas handed to the constructor
  totalPassengers,
  gameState, currentLevel, passengers, bridges, obstacles, platforms, walls,
  passengersSpawned, spawnTimer, levelStartTime, levelConfig, checkInGate,
  selectedPassenger, selectedPower, powerCounts,
  now,        \* Date.now() / 1000
  lastOp,     \* the call that produced the current state
  played,     \* history: wall time spent in PLAYING since the level started
  used,       \* history: per agent, successful activations since its ability was (re)assigned
  probe,      \* result record of the last direct call of a Passenger method
  gateReturns, \* history: per agent, the calls of checkReachedGate that returned true
  passedLevels \* history: the levels passed since the last start from the menu

\* GameEngine.groundLevel, set by the constructor
groundLevel == canvas.height - uiHeight - Px(20)

simVars == <<passengers, bridges, obstacles, platforms, walls, passengersSpawned,
             spawnTimer, levelStartTime, levelConfig, checkInGate,
             selectedPassenger, selectedPower, powerCounts, currentLevel>>
\* The pass mark of the win check: 50 of 100 agents in the code ("need at
\* least 50% to pass"), half of the cap here.
PassMarkOf(cap) == (cap + 1) \div 2
passMark == PassMarkOf(totalPassengers)

vars == <<canvas, totalPassengers, gameState, currentLevel, passengers, bridges, obstacles, platforms, walls,
          passengersSpawned, spawnTimer, levelStartTime, levelConfig, checkInGate,
          selectedPassenger, selectedPower, powerCounts, now, lastOp, played, used, probe,
          gateReturns, passedLevels>>

(***************************************************************************)
(* CollisionSystem                                                         *)
(***************************************************************************)
Box(x, y, w, h) == [x |-> x, y |-> y, width |-> w, height |-> h]

\* Mutant: boxes that only touch count as intersecting.
checkAABB_Closed(box1, box2) ==
  /\ box1.x <= box2.x + box2.width
  /\ box1.x + box1.width >= box2.x
  /\ box1.y <= box2.y + box2.height
  /\ box1.y + box1.height >= box2.y

checkAABB(box1, box2) ==
  /\ box1.x < box2.x + box2.width
  /\ box1.x + box1.width > box2.x
  /\ box1.y < box2.y + box2.height
  /\ box1.y + box1.height > box2.y

Min(a, b) == IF a < b THEN a ELSE b

\* Mutant: equal overlaps on the two axes are resolved along x.
resolveCollision_TieToX(entityBounds, obstacleBounds) ==
  LET overlapLeft == (entityBounds.x + entityBounds.width) - obstacleBounds.x
      overlapRight == (obstacleBounds.x + obstacleBounds.width) - entityBounds.x
      overlapTop == (entityBounds.y + entityBounds.height) - obstacleBounds.y
      overlapBottom == (obstacleBounds.y + obstacleBounds.height) - entityBounds.y
      minOverlapX == Min(overlapLeft, overlapRight)
      minOverlapY == Min(overlapTop, overlapBottom)
  IN IF minOverlapX <= minOverlapY
       THEN [x |-> IF overlapLeft < overlapRight
                     THEN obstacleBounds.x - entityBounds.width
                     ELSE obstacleBounds.x + obstacleBounds.width,
             y |-> entityBounds.y, collisionX |-> TRUE, collisionY |-> FALSE]
       ELSE [x |-> entityBounds.x,
             y |-> IF overlapTop < overlapBottom
                     THEN obstacleBounds.y - entityBounds.height
                     ELSE obstacleBounds.y + obstacleBounds.height,
             collisionX |-> FALSE, collisionY |-> TRUE]

resolveCollision(entityBounds, obstacleBounds) ==
  LET overlapLeft == (entityBounds.x + entityBounds.width) - obstacleBounds.x
      overlapRight == (obstacleBounds.x + obstacleBounds.width) - entityBounds.x
      overlapTop == (entityBounds.y + entityBounds.height) - obstacleBounds.y
      overlapBottom == (obstacleBounds.y + obstacleBounds.height) - entityBounds.y
      minOverlapX == Min(overlapLeft, overlapRight)
      minOverlapY == Min(overlapTop, overlapBottom)
  IN IF minOverlapX < minOverlapY
       THEN [x |-> IF overlapLeft < overlapRight
                     THEN obstacleBounds.x - entityBounds.width
                     ELSE obstacleBounds.x + obstacleBounds.width,
             y |-> entityBounds.y, collisionX |-> TRUE, collisionY |-> FALSE]
       ELSE [x |-> entityBounds.x,
             y |-> IF overlapTop < overlapBottom
                     THEN obstacleBounds.y - entityBounds.height
                     ELSE obstacleBounds.y + obstacleBounds.height,
             collisionX |-> FALSE, collisionY |-> TRUE]

(***************************************************************************)
(* Passenger                                                               *)
(***************************************************************************)
NewPassenger(startPosition, superPower) ==
  [x |-> startPosition.x, y |-> startPosition.y, vx |-> 0, vy |-> 0,
   superPower |-> superPower, isActive |-> TRUE, hasReachedGate |-> FALSE,
   isFalling |-> FALSE, direction |-> 1, isUsingPower |-> FALSE,
   powerCooldown |-> 0]

getBounds(p) == Box(p.x, p.y, PassengerWidth, PassengerHeight)

reverseDirection(p) == [p EXCEPT !.direction = IF p.direction = 1 THEN -1 ELSE 1]

\* Mutant: the isUsingPower test is missing.
activateSuperPower_NoUsingCheck(p) ==
  IF p.superPower = NoPower \/ p.powerCooldown > 0
    THEN [ret |-> FALSE, p |-> p]
    ELSE [ret |-> TRUE,
          p |-> [p EXCEPT !.isUsingPower = TRUE, !.powerCooldown = PowerCooldown]]

\* Mutant: the cooldown is started even when the activation is refused.
activateSuperPower_CooldownAlways(p) ==
  IF p.superPower = NoPower \/ p.powerCooldown > 0 \/ p.isUsingPower
    THEN [ret |-> FALSE, p |-> [p EXCEPT !.powerCooldown = PowerCooldown]]
    ELSE [ret |-> TRUE,
          p |-> [p EXCEPT !.isUsingPower = TRUE, !.powerCooldown = PowerCooldown]]

activateSuperPower(p) ==
  IF p.superPower = NoPower \/ p.powerCooldown > 0 \/ p.isUsingPower
    THEN [ret |-> FALSE, p |-> p]
    ELSE [ret |-> TRUE,
          p |-> [p EXCEPT !.isUsingPower = TRUE, !.powerCooldown = PowerCooldown]]

stopUsingPower(p) == [p EXCEPT !.isUsingPower = FALSE]

\* Mutant: the test for an agent that has already arrived is missing.
checkReachedGate_NoGuard(p, gatePosition, gw) ==
  IF /\ p.x + PassengerWidth >= gatePosition.x
     /\ p.x <= gatePosition.x + gw
     /\ p.y + PassengerHeight >= gatePosition.y
     /\ p.y <= gatePosition.y + Px(50)
    THEN [ret |-> TRUE, p |-> [p EXCEPT !.hasReachedGate = TRUE, !.isActive = FALSE]]
    ELSE [ret |-> FALSE, p |-> p]

\* Mutant: the agent is marked as arrived but stays active.
checkReachedGate_StaysActive(p, gatePosition, gw) ==
  IF p.hasReachedGate THEN [ret |-> FALSE, p |-> p]
  ELSE IF /\ p.x + PassengerWidth >= gatePosition.x
          /\ p.x <= gatePosition.x + gw
          /\ p.y + PassengerHeight >= gatePosition.y
          /\ p.y <= gatePosition.y + Px(50)
    THEN [ret |-> TRUE, p |-> [p EXCEPT !.hasReachedGate = TRUE]]
    ELSE [ret |-> FALSE, p |-> p]

checkReachedGate(p, gatePosition, gw) ==
  IF p.hasReachedGate THEN [ret |-> FALSE, p |-> p]
  ELSE IF /\ p.x + PassengerWidth >= gatePosition.x
          /\ p.x <= gatePosition.x + gw
          /\ p.y + PassengerHeight >= gatePosition.y
          /\ p.y <= gatePosition.y + Px(50)
    THEN [ret |-> TRUE, p |-> [p EXCEPT !.hasReachedGate = TRUE, !.isActive = FALSE]]
    ELSE [ret |-> FALSE, p |-> p]


\* One iteration of the platform loop of Passenger.update (part_002:253-287).
\* acc = [newY, vy, isFalling, onPlatform, done]; done models the break.
PlatformStep(acc, platform, px, feetY, testBoundsY) ==
  IF acc.done THEN acc
  ELSE IF /\ px + PassengerWidth > platform.x
          /\ px < platform.x + platform.width
          /\ feetY >= platform.y - Px(2)
          /\ feetY <= platform.y + Px(5)
          /\ acc.vy >= 0
    THEN [newY |-> platform.y - PassengerHeight, vy |-> 0, isFalling |-> FALSE,
          onPlatform |-> TRUE, done |-> TRUE]
  ELSE IF /\ checkAABB(testBoundsY, platform)
          /\ (testBoundsY.y + testBoundsY.height) - platform.y
               < (platform.y + platform.height) - testBoundsY.y
          /\ acc.vy < 0
    THEN [acc EXCEPT !.newY = platform.y + platform.height, !.vy = 0]
  ELSE acc

RECURSIVE PlatformLoop(_, _, _, _, _, _)
PlatformLoop(i, acc, plats, px, feetY, testBoundsY) ==
  IF i > Len(plats) THEN acc
  ELSE PlatformLoop(i + 1, PlatformStep(acc, plats[i], px, feetY, testBoundsY),
                    plats, px, feetY, testBoundsY)

\* One iteration of the vertical wall loop of Passenger.update (part_002:290-311).
WallStepY(acc, wall, testBoundsY) ==
  IF checkAABB(testBoundsY, wall)
    THEN IF (testBoundsY.y + testBoundsY.height) - wall.y
              < (wall.y + wall.height) - testBoundsY.y
           THEN [acc EXCEPT !.newY = wall.y - PassengerHeight, !.vy = 0,
                            !.onPlatform = TRUE]
           ELSE [acc EXCEPT !.newY = wall.y + wall.height, !.vy = 0]
    ELSE acc

RECURSIVE WallLoopY(_, _, _, _)
WallLoopY(i, acc, ws, testBoundsY) ==
  IF i > Len(ws) THEN acc
  ELSE WallLoopY(i + 1, WallStepY(acc, ws[i], testBoundsY), ws, testBoundsY)

\* Mutant: the agent keeps the direction it had; the target is not looked at.
PassengerUpdate_KeepsFacing(p, dt, plats, ws, targetX, targetY) ==
  IF ~p.isActive \/ p.hasReachedGate THEN p
  ELSE
    LET vy1 == p.vy + 5 * dt
        dx == targetX - p.x
        dir1 == p.direction
        deltaX == dir1 * speed * dt
        deltaY == vy1 * dt
        hitX == \E i \in 1..Len(ws) :
                  checkAABB(Box(p.x + deltaX, p.y, PassengerWidth, PassengerHeight), ws[i])
        dir2 == IF hitX THEN -dir1 ELSE dir1
        newX == IF hitX THEN p.x ELSE p.x + deltaX
        feetY == p.y + PassengerHeight
        testBoundsY == Box(newX, p.y + deltaY, PassengerWidth, PassengerHeight)
        acc0 == [newY |-> p.y + deltaY, vy |-> vy1, isFalling |-> p.isFalling,
                 onPlatform |-> FALSE, done |-> FALSE]
        acc1 == PlatformLoop(1, acc0, plats, newX, feetY, testBoundsY)
        acc2 == WallLoopY(1, acc1, ws, testBoundsY)
    IN [p EXCEPT
          !.x = newX,
          !.y = acc2.newY,
          !.vx = dir2 * speed,
          !.vy = acc2.vy,
          !.direction = dir2,
          !.isFalling = IF ~acc2.onPlatform /\ acc2.vy > 0 THEN TRUE ELSE acc2.isFalling,
          !.powerCooldown = IF p.powerCooldown > 0 THEN p.powerCooldown - dt
                            ELSE p.powerCooldown]

\* Mutant: the horizontal wall loop does not stop at the first wall hit, so
\* that every wall in the way reverses the agent once more.
PassengerUpdate_NoBreak(p, dt, plats, ws, targetX, targetY) ==
  IF ~p.isActive \/ p.hasReachedGate THEN p
  ELSE
    LET vy1 == p.vy + 5 * dt
        dx == targetX - p.x
        dir1 == IF Abs(dx) > Px(10) THEN (IF dx > 0 THEN 1 ELSE -1) ELSE p.direction
        deltaX == dir1 * speed * dt
        deltaY == vy1 * dt
        hitX == \E i \in 1..Len(ws) :
                  checkAABB(Box(p.x + deltaX, p.y, PassengerWidth, PassengerHeight), ws[i])
        hits == Cardinality({i \in 1..Len(ws) :
                  checkAABB(Box(p.x + deltaX, p.y, PassengerWidth, PassengerHeight), ws[i])})
        dir2 == IF hits % 2 = 1 THEN -dir1 ELSE dir1
        newX == IF hitX THEN p.x ELSE p.x + deltaX
        feetY == p.y + PassengerHeight
        testBoundsY == Box(newX, p.y + deltaY, PassengerWidth, PassengerHeight)
        acc0 == [newY |-> p.y + deltaY, vy |-> vy1, isFalling |-> p.isFalling,
                 onPlatform |-> FALSE, done |-> FALSE]
        acc1 == PlatformLoop(1, acc0, plats, newX, feetY, testBoundsY)
        acc2 == WallLoopY(1, acc1, ws, testBoundsY)
    IN [p EXCEPT
          !.x = newX,
          !.y = acc2.newY,
          !.vx = dir2 * speed,
          !.vy = acc2.vy,
          !.direction = dir2,
          !.isFalling = IF ~acc2.onPlatform /\ acc2.vy > 0 THEN TRUE ELSE acc2.isFalling,
          !.powerCooldown = IF p.powerCooldown > 0 THEN p.powerCooldown - dt
                            ELSE p.powerCooldown]

\* Mutant: gravity is applied only to an agent that is falling.
PassengerUpdate_GravityWhenFalling(p, dt, plats, ws, targetX, targetY) ==
  IF ~p.isActive \/ p.hasReachedGate THEN p
  ELSE
    LET vy1 == IF p.isFalling THEN p.vy + 5 * dt ELSE p.vy
        dx == targetX - p.x
        dir1 == IF Abs(dx) > Px(10) THEN (IF dx > 0 THEN 1 ELSE -1) ELSE p.direction
        deltaX == dir1 * speed * dt
        deltaY == vy1 * dt
        hitX == \E i \in 1..Len(ws) :
                  checkAABB(Box(p.x + deltaX, p.y, PassengerWidth, PassengerHeight), ws[i])
        dir2 == IF hitX THEN -dir1 ELSE dir1
        newX == IF hitX THEN p.x ELSE p.x + deltaX
        feetY == p.y + PassengerHeight
        testBoundsY == Box(newX, p.y + deltaY, PassengerWidth, PassengerHeight)
        acc0 == [newY |-> p.y + deltaY, vy |-> vy1, isFalling |-> p.isFalling,
                 onPlatform |-> FALSE, done |-> FALSE]
        acc1 == PlatformLoop(1, acc0, plats, newX, feetY, testBoundsY)
        acc2 == WallLoopY(1, acc1, ws, testBoundsY)
    IN [p EXCEPT
          !.x = newX,
          !.y = acc2.newY,
          !.vx = dir2 * speed,
          !.vy = acc2.vy,
          !.direction = dir2,
          !.isFalling = IF ~acc2.onPlatform /\ acc2.vy > 0 THEN TRUE ELSE acc2.isFalling,
          !.powerCooldown = IF p.powerCooldown > 0 THEN p.powerCooldown - dt
                            ELSE p.powerCooldown]

\* Passenger.update(deltaTime, platforms, walls, targetX, targetY); the engine
\* always supplies the target.
PassengerUpdate(p, dt, plats, ws, targetX, targetY) ==
  IF ~p.isActive \/ p.hasReachedGate THEN p
  ELSE
    LET vy1 == p.vy + 5 * dt
        dx == targetX - p.x
        dir1 == IF Abs(dx) > Px(10) THEN (IF dx > 0 THEN 1 ELSE -1) ELSE p.direction
        deltaX == dir1 * speed * dt
        deltaY == vy1 * dt
        hitX == \E i \in 1..Len(ws) :
                  checkAABB(Box(p.x + deltaX, p.y, PassengerWidth, PassengerHeight), ws[i])
        dir2 == IF hitX THEN -dir1 ELSE dir1
        newX == IF hitX THEN p.x ELSE p.x + deltaX
        feetY == p.y + PassengerHeight
        testBoundsY == Box(newX, p.y + deltaY, PassengerWidth, PassengerHeight)
        acc0 == [newY |-> p.y + deltaY, vy |-> vy1, isFalling |-> p.isFalling,
                 onPlatform |-> FALSE, done |-> FALSE]
        acc1 == PlatformLoop(1, acc0, plats, newX, feetY, testBoundsY)
        acc2 == WallLoopY(1, acc1, ws, testBoundsY)
    IN [p EXCEPT
          !.x = newX,
          !.y = acc2.newY,
          !.vx = dir2 * speed,
          !.vy = acc2.vy,
          !.direction = dir2,
          !.isFalling = IF ~acc2.onPlatform /\ acc2.vy > 0 THEN TRUE ELSE acc2.isFalling,
          !.powerCooldown = IF p.powerCooldown > 0 THEN p.powerCooldown - dt
                            ELSE p.powerCooldown]


(***************************************************************************)
(* GameEngine: level generation and loading                                *)
(***************************************************************************)
Obstacle(type, x, y, w, h, id) ==
  [type |-> type, x |-> x, y |-> y, width |-> w, height |-> h, id |-> id]

\* generateLevelConfig places its obstacles with Math.random().  The model
\* draws the layout from Layouts.  On this canvas the main-path loop adds
\* nothing (150 + 50 is not below width - 300).  LayoutA holds the fixed spawn
\* platform, one of the extra platforms (x in 100 + [0, width-200), y in
\* 80 + [0, ground-150), width in [60,160)), the first two floor gaps (x in
\* 200 + i*200 + [0,150), y = ground - 30, width in [50,110)), the first door
\* and the first checkpoint (x in 300 + i*250 + [0,100), y in 120 +
\* [0, ground-200)) and the first guard (no path platform: x = 400, y =
\* ground - 30).  The other extra platforms and the
\* vertical walls (x in 150 + [0, width-300), y in 100 + [0, ground-200)) are
\* taken to lie right of x = 340 px and above y = 165 px, where no agent of
\* this level touches them and no click handling reads them; the remaining
\* gaps, doors, checkpoints and guards lie beyond the canvas.
LayoutA ==
  << Obstacle("wall", 0, Px(50), Px(150), Px(20), "spawn_platform"),
     Obstacle("wall", Px(100), Px(80), Px(100), Px(20), "platform_0"),
     Obstacle("gap", Px(230), groundLevel - Px(30), Px(50), Px(20), "gap_0"),
     Obstacle("gap", Px(400), groundLevel - Px(30), Px(50), Px(20), "gap_1"),
     Obstacle("door", Px(380), Px(120), Px(20), Px(60), "special_0"),
     Obstacle("security", Px(550), Px(120), Px(20), Px(60), "special_1"),
     Obstacle("securityGuard", Px(400), groundLevel - Px(30), Px(20), Px(50), "guard_0") >>

Layouts == {LayoutA}

\* A level of the 700 px wide canvas, where the main-path loop adds one
\* platform (x = 200, y = 50, width in [80,200)) and the guards stand on it
\* (x = 220, y = 0).  The extra platforms platform_0..2 lead from the spawn
\* platform to x = 390 at y = 82 and y = 110; the first two floor gaps
\* overlap: gap_0 spans x = 345..450 and gap_1 x = 400..450.  The other
\* extra platforms and the vertical walls are taken to lie right of x = 470
\* and above y = 175.
LayoutG ==
  << Obstacle("wall", 0, Px(50), Px(150), Px(20), "spawn_platform"),
     Obstacle("wall", Px(200), Px(50), Px(199), Px(20), "path_platform_1"),
     Obstacle("wall", Px(100), Px(82), Px(100), Px(20), "platform_0"),
     Obstacle("wall", Px(190), Px(110), Px(159), Px(20), "platform_1"),
     Obstacle("wall", Px(330), Px(110), Px(60), Px(20), "platform_2"),
     Obstacle("gap", Px(345), groundLevel - Px(30), Px(105), Px(20), "gap_0"),
     Obstacle("gap", Px(400), groundLevel - Px(30), Px(50), Px(20), "gap_1"),
     Obstacle("gap", Px(600), groundLevel - Px(30), Px(50), Px(20), "gap_2"),
     Obstacle("door", Px(300), Px(120), Px(20), Px(60), "special_0"),
     Obstacle("security", Px(550), Px(120), Px(20), Px(60), "special_1"),
     Obstacle("securityGuard", Px(220), 0, Px(20), Px(50), "guard_0"),
     Obstacle("securityGuard", Px(220), 0, Px(20), Px(50), "guard_1"),
     Obstacle("securityGuard", Px(220), 0, Px(20), Px(50), "guard_2") >>

\* LayoutA with the first vertical wall (20 wide, height in [60,180)) drawn
\* across the floor walkers' way: x = 300, y = 100..220.
LayoutW ==
  SubSeq(LayoutA, 1, 2)
    \o << Obstacle("wall", Px(300), Px(100), Px(20), Px(120), "wall_0") >>
    \o SubSeq(LayoutA, 3, Len(LayoutA))

\* LayoutA with the extra platform platform_0 drawn at height y (the
\* generator draws y in 80 + [0, ground - 150)).
LayoutF(y) ==
  << LayoutA[1], [LayoutA[2] EXCEPT !.y = y] >> \o SubSeq(LayoutA, 3, Len(LayoutA))

\* Heights drawn for platform_0: 80 px as in LayoutA, 82 px, and 85 px.
FallHeights == {Px(80), Px(82), Px(85)}

\* LayoutA with the first door (x in 300 + [0,100), y in 120 + [0, ground -
\* 200), 20 x 60) drawn at x = 300, y = 130..190, across the floor walkers'
\* way.
LayoutD ==
  SubSeq(LayoutA, 1, 4)
    \o << Obstacle("door", Px(300), Px(130), Px(20), Px(60), "special_0") >>
    \o SubSeq(LayoutA, 6, Len(LayoutA))

\* A level in which the extra platform platform_0 (x = 170, y = 122, 159
\* wide) is reached from the spawn platform and leads over the top of the
\* first door (x = 300, y = 124..184), behind which the first two vertical
\* walls (x in 150 + [0, width - 300), y in 100 + [0, ground - 200), height
\* in [60,180)) stand close together: wall_0 at x = 330, y = 100..160 and
\* wall_1 at x = 332, y = 105..205.
LayoutL ==
  << LayoutA[1],
     Obstacle("wall", Px(170), Px(122), Px(159), Px(20), "platform_0"),
     Obstacle("wall", Px(330), Px(100), Px(20), Px(60), "wall_0"),
     Obstacle("wall", Px(332), Px(105), Px(20), Px(100), "wall_1"),
     LayoutA[3], LayoutA[4],
     Obstacle("door", Px(300), Px(124), Px(20), Px(60), "special_0"),
     LayoutA[6], LayoutA[7] >>

NullConfig ==
  [levelNumber |-> 0, obstacles |-> << >>, spawnPoint |-> [x |-> 0, y |-> 0],
   checkInGate |-> [x |-> 0, y |-> 0]]

generateLevelConfig(level, layout) ==
  [levelNumber |-> level,
   obstacles |-> layout,
   spawnPoint |-> [x |-> Px(50), y |-> Px(50) - Px(32)],
   checkInGate |-> [x |-> canvas.width - Px(150), y |-> groundLevel - Px(30)]]

initializePowerCounts ==
  [k \in Powers |-> CASE k = "bridge" -> 10
                      [] k = "doorBreaker" -> 8
                      [] k = "securityBriber" -> 6]

IsSolidType(t) == t \in {"wall", "door", "security", "securityGuard"}

RECURSIVE BridgePlatforms(_, _)
BridgePlatforms(brs, i) ==
  IF i > Len(brs) THEN << >>
  ELSE << Box(brs[i].x, brs[i].y, brs[i].width, Px(10)) >> \o BridgePlatforms(brs, i + 1)

RECURSIVE ObstacleBoxes(_, _, _)
\* the boxes of the solid obstacles that are wider than high (wide = TRUE) or not
ObstacleBoxes(obs, i, wide) ==
  IF i > Len(obs) THEN << >>
  ELSE (IF IsSolidType(obs[i].type) /\ ((obs[i].width > obs[i].height) = wide)
          THEN << Box(obs[i].x, obs[i].y, obs[i].width, obs[i].height) >>
          ELSE << >>) \o ObstacleBoxes(obs, i + 1, wide)

\* Mutant: the bridges are not merged into the platforms.
buildPlatformsAndWalls_NoBridges(e) ==
  [e EXCEPT
     !.platforms = ObstacleBoxes(e.obstacles, 1, TRUE)
                   \o << Box(0, groundLevel, canvas.width, Px(20)) >>,
     !.walls = ObstacleBoxes(e.obstacles, 1, FALSE)]

buildPlatformsAndWalls(e) ==
  [e EXCEPT
     !.platforms = ObstacleBoxes(e.obstacles, 1, TRUE)
                   \o << Box(0, groundLevel, canvas.width, Px(20)) >>
                   \o BridgePlatforms(e.bridges, 1),
     !.walls = ObstacleBoxes(e.obstacles, 1, FALSE)]

loadLevel(e, config) ==
  buildPlatformsAndWalls([e EXCEPT !.obstacles = config.obstacles,
                                   !.checkInGate = config.checkInGate])

\* Mutant: the bridges of the previous attempt are kept.
startLevel_KeepsBridges(e, level, t, layout) ==
  LET e1 == [e EXCEPT !.currentLevel = level,
                      !.gameState = PLAYING,
                      !.passengers = << >>,
                      !.used = << >>,
                      !.gateReturns = << >>,
                      !.passengersSpawned = 0,
                      !.spawnTimer = 0,
                      !.levelStartTime = t,
                      !.selectedPower = NoPower,
                      !.selectedPassenger = 0,
                      !.powerCounts = initializePowerCounts,
                      !.levelConfig = generateLevelConfig(level, layout)]
  IN loadLevel(e1, e1.levelConfig)

\* startLevel(level); t is Date.now() / 1000 and layout the generated level.
startLevel(e, level, t, layout) ==
  LET e1 == [e EXCEPT !.currentLevel = level,
                      !.gameState = PLAYING,
                      !.passengers = << >>,
                      !.used = << >>,
                      !.gateReturns = << >>,
                      !.bridges = << >>,
                      !.passengersSpawned = 0,
                      !.spawnTimer = 0,
                      !.levelStartTime = t,
                      !.selectedPower = NoPower,
                      !.selectedPassenger = 0,
                      !.powerCounts = initializePowerCounts,
                      !.levelConfig = generateLevelConfig(level, layout)]
  IN loadLevel(e1, e1.levelConfig)

\* spawnPassenger(); superPower is the outcome of the Math.random() draw.
spawnPassenger(e, superPower) ==
  IF e.levelConfig.levelNumber = 0 THEN e
  ELSE [e EXCEPT !.passengers = Append(@, NewPassenger(e.levelConfig.spawnPoint, superPower)),
                 !.used = Append(@, 0),
                 !.gateReturns = Append(@, 0),
                 !.passengersSpawned = @ + 1]


(***************************************************************************)
(* GameEngine: obstacle interaction                                        *)
(***************************************************************************)
\* Mutant: every obstacle of the kind of the one named goes.
RemoveById_WholeKind(obs, id) ==
  SelectSeq(obs, LAMBDA o : \A m \in 1..Len(obs) : obs[m].id = id => o.type # obs[m].type)

RemoveById(obs, id) == SelectSeq(obs, LAMBDA o : o.id # id)

\* Mutant: built bridges are not looked at.
hasBridge_Never(brs, obstacle) == FALSE

hasBridge(brs, obstacle) ==
  \E i \in 1..Len(brs) :
     /\ brs[i].x <= obstacle.x + obstacle.width
     /\ brs[i].x + brs[i].width >= obstacle.x

\* c = [p, obstacles, bridges, acts]: the agent, the engine's obstacle and
\* bridge lists, and (history) the number of successful activations.
\* The ability test short-circuits: activateSuperPower is called only when
\* the agent holds the matching ability.
UseOrBounce(c, obstacle, power, bounced) ==
  LET a == activateSuperPower(c.p)
  IN IF c.p.superPower = power /\ a.ret
       THEN [c EXCEPT !.p = a.p,
                      !.obstacles = RemoveById(c.obstacles, obstacle.id),
                      !.acts = @ + 1]
       ELSE [c EXCEPT !.p = bounced]

\* Mutant: an agent that meets an open gap without building a bridge is lost.
handleObstacleInteraction_GapKills(c, obstacle) ==
  CASE obstacle.type = "wall" ->
         [c EXCEPT !.p = reverseDirection(c.p)]
    [] obstacle.type = "door" ->
         UseOrBounce(c, obstacle, "doorBreaker", reverseDirection(c.p))
    [] obstacle.type = "gap" ->
         IF hasBridge(c.bridges, obstacle) THEN c
         ELSE LET a == activateSuperPower(c.p)
              IN IF c.p.superPower = "bridge" /\ a.ret
                   THEN [c EXCEPT
                           !.p = a.p,
                           !.bridges = Append(@, [x |-> obstacle.x,
                                                  y |-> obstacle.y + obstacle.height - Px(10),
                                                  width |-> obstacle.width]),
                           !.obstacles = RemoveById(c.obstacles, obstacle.id),
                           !.acts = @ + 1]
                   ELSE [c EXCEPT !.p = [c.p EXCEPT !.isActive = FALSE]]
    [] obstacle.type = "security" ->
         UseOrBounce(c, obstacle, "securityBriber", reverseDirection(c.p))
    [] obstacle.type = "securityGuard" ->
         UseOrBounce(c, obstacle, "securityBriber",
                     [reverseDirection(c.p) EXCEPT !.vx = (3 * c.p.vx) \div 10])
    [] OTHER -> c

handleObstacleInteraction(c, obstacle) ==
  CASE obstacle.type = "wall" ->
         [c EXCEPT !.p = reverseDirection(c.p)]
    [] obstacle.type = "door" ->
         UseOrBounce(c, obstacle, "doorBreaker", reverseDirection(c.p))
    [] obstacle.type = "gap" ->
         IF hasBridge(c.bridges, obstacle) THEN c
         ELSE LET a == activateSuperPower(c.p)
              IN IF c.p.superPower = "bridge" /\ a.ret
                   THEN [c EXCEPT
                           !.p = a.p,
                           !.bridges = Append(@, [x |-> obstacle.x,
                                                  y |-> obstacle.y + obstacle.height - Px(10),
                                                  width |-> obstacle.width]),
                           !.obstacles = RemoveById(c.obstacles, obstacle.id),
                           !.acts = @ + 1]
                   ELSE [c EXCEPT !.p = [reverseDirection(c.p) EXCEPT !.isFalling = TRUE]]
    [] obstacle.type = "security" ->
         UseOrBounce(c, obstacle, "securityBriber", reverseDirection(c.p))
    [] obstacle.type = "securityGuard" ->
         UseOrBounce(c, obstacle, "securityBriber",
                     [reverseDirection(c.p) EXCEPT !.vx = (3 * c.p.vx) \div 10])
    [] OTHER -> c

\* One iteration of the loop of handleObstacleCollisions.
CollisionStep(c, obstacle, passengerBounds) ==
  IF obstacle.type = "gap"
    THEN LET passengerFeetX == c.p.x + (IF c.p.direction = 1 THEN PassengerWidth ELSE 0)
             passengerFeetY == c.p.y + PassengerHeight
         IN IF /\ passengerFeetX >= obstacle.x
               /\ passengerFeetX <= obstacle.x + obstacle.width
               /\ passengerFeetY >= obstacle.y
               /\ passengerFeetY <= obstacle.y + obstacle.height
               /\ ~hasBridge(c.bridges, obstacle)
              THEN handleObstacleInteraction(c, obstacle)
              ELSE c
    ELSE IF checkAABB(passengerBounds,
                      Box(obstacle.x, obstacle.y, obstacle.width, obstacle.height))
           THEN handleObstacleInteraction(c, obstacle)
           ELSE c

RECURSIVE CollisionLoop(_, _, _, _)
\* the for-of loop runs over the array this.obstacles named when it started
CollisionLoop(i, c, obs0, passengerBounds) ==
  IF i > Len(obs0) THEN c
  ELSE CollisionLoop(i + 1, CollisionStep(c, obs0[i], passengerBounds), obs0, passengerBounds)

handleObstacleCollisions(c) ==
  CollisionLoop(1, c, c.obstacles, getBounds(c.p))

(***************************************************************************)
(* GameEngine.update                                                       *)
(***************************************************************************)
\* The body of passengers.forEach in update, for the agent at index i.
StepPassenger(e, i, dt) ==
  LET p1 == PassengerUpdate(e.passengers[i], dt, e.platforms, e.walls,
                            e.checkInGate.x, e.checkInGate.y)
      c == handleObstacleCollisions(
             [p |-> p1, obstacles |-> e.obstacles, bridges |-> e.bridges, acts |-> 0])
      g == checkReachedGate(c.p, e.checkInGate, gateWidth)
  IN [e EXCEPT !.passengers[i] = g.p,
               !.obstacles = c.obstacles,
               !.bridges = c.bridges,
               !.used[i] = @ + c.acts,
               !.gateReturns[i] = @ + (IF g.ret THEN 1 ELSE 0)]

RECURSIVE PassengerLoop(_, _, _)
PassengerLoop(e, i, dt) ==
  IF i > Len(e.passengers) THEN e
  ELSE PassengerLoop(StepPassenger(e, i, dt), i + 1, dt)

ActiveCount(ps) == Cardinality({i \in 1..Len(ps) : ps[i].isActive /\ ~ps[i].hasReachedGate})
ReachedCount(ps) == Cardinality({i \in 1..Len(ps) : ps[i].hasReachedGate})

\* Mutant: the win check does not wait for the active agents.
checkWinCondition_IgnoresActive(e) ==
  IF e.passengersSpawned >= e.totalPassengers
    THEN IF ReachedCount(e.passengers) >= PassMarkOf(e.totalPassengers)
           THEN IF e.currentLevel >= FinalLevel
                  THEN [e EXCEPT !.gameState = VICTORY]
                  ELSE [e EXCEPT !.gameState = LEVEL_COMPLETE]
           ELSE [e EXCEPT !.gameState = GAME_OVER]
    ELSE e

\* Mutant: the final level is tested with > instead of >=.
checkWinCondition_WrongFinal(e) ==
  IF e.passengersSpawned >= e.totalPassengers /\ ActiveCount(e.passengers) = 0
    THEN IF ReachedCount(e.passengers) >= PassMarkOf(e.totalPassengers)
           THEN IF e.currentLevel > FinalLevel
                  THEN [e EXCEPT !.gameState = VICTORY]
                  ELSE [e EXCEPT !.gameState = LEVEL_COMPLETE]
           ELSE [e EXCEPT !.gameState = GAME_OVER]
    ELSE e

\* The win check at the end of update.
checkWinCondition(e) ==
  IF e.passengersSpawned >= e.totalPassengers /\ ActiveCount(e.passengers) = 0
    THEN IF ReachedCount(e.passengers) >= PassMarkOf(e.totalPassengers)
           THEN IF e.currentLevel >= FinalLevel
                  THEN [e EXCEPT !.gameState = VICTORY]
                  ELSE [e EXCEPT !.gameState = LEVEL_COMPLETE]
           ELSE [e EXCEPT !.gameState = GAME_OVER]
    ELSE e

\* The spawn block of update.
spawnStep(e, dt, superPower) ==
  IF e.passengersSpawned < e.totalPassengers
    THEN IF e.spawnTimer + dt >= spawnInterval
           THEN [spawnPassenger(e, superPower) EXCEPT !.spawnTimer = 0]
           ELSE [e EXCEPT !.spawnTimer = @ + dt]
    ELSE e

\* Mutant: the time limit is tested with > instead of >=.
update_LateTimeout(e, dt, t, superPower) ==
  IF e.gameState # PLAYING THEN e
  ELSE IF t - e.levelStartTime > levelTimeLimit
    THEN [e EXCEPT !.gameState = GAME_OVER]
  ELSE checkWinCondition(
         PassengerLoop(buildPlatformsAndWalls(spawnStep(e, dt, superPower)), 1, dt))

\* Mutant: the frame that finds the time limit exceeded returns without
\* ending the level.
update_TimeoutReturns(e, dt, t, superPower) ==
  IF e.gameState # PLAYING THEN e
  ELSE IF t - e.levelStartTime >= levelTimeLimit THEN e
  ELSE checkWinCondition(
         PassengerLoop(buildPlatformsAndWalls(spawnStep(e, dt, superPower)), 1, dt))

\* update(deltaTime); t is Date.now() / 1000, superPower the Math.random()
\* draw of spawnPassenger.
update(e, dt, t, superPower) ==
  IF e.gameState # PLAYING THEN e
  ELSE IF t - e.levelStartTime >= levelTimeLimit
    THEN [e EXCEPT !.gameState = GAME_OVER]
  ELSE checkWinCondition(
         PassengerLoop(buildPlatformsAndWalls(spawnStep(e, dt, superPower)), 1, dt))


(***************************************************************************)
(* GameEngine: input                                                       *)
(***************************************************************************)
\* Math.sqrt(dx^2 + dy^2) < r, and <= r, on exact integers
Within(dx, dy, r) == Abs(dx) < r /\ Abs(dy) < r /\ dx * dx + dy * dy < r * r
WithinEq(dx, dy, r) == Abs(dx) <= r /\ Abs(dy) <= r /\ dx * dx + dy * dy <= r * r

\* Mutant: the level just passed is started again.
nextLevel_Replays(e, t, layout) ==
  IF e.currentLevel < FinalLevel THEN startLevel(e, e.currentLevel, t, layout) ELSE e

nextLevel(e, t, layout) ==
  IF e.currentLevel < FinalLevel THEN startLevel(e, e.currentLevel + 1, t, layout) ELSE e

\* Mutant: pause() toggles out of any state that is not PLAYING.
pause_FromAnywhere(e) ==
  IF e.gameState = PLAYING THEN [e EXCEPT !.gameState = PAUSED]
  ELSE [e EXCEPT !.gameState = PLAYING]

pause(e) ==
  IF e.gameState = PLAYING THEN [e EXCEPT !.gameState = PAUSED]
  ELSE IF e.gameState = PAUSED THEN [e EXCEPT !.gameState = PLAYING]
  ELSE e

InIcon(x, k) == x >= Px(10) + k * Px(40) /\ x <= Px(10) + k * Px(40) + Px(32)

\* Mutant: the icon selects its ability whatever is left of it.
SelectIfLeft_Always(e, power) == [e EXCEPT !.selectedPower = power]

SelectIfLeft(e, power) ==
  IF e.powerCounts[power] > 0 THEN [e EXCEPT !.selectedPower = power] ELSE e

handleUIClick(e, x, y, uiY) ==
  IF y >= uiY + Px(40) /\ y <= uiY + Px(40) + Px(32)
    THEN IF InIcon(x, 0) THEN SelectIfLeft(e, "bridge")
         ELSE IF InIcon(x, 1) THEN SelectIfLeft(e, "doorBreaker")
         ELSE IF InIcon(x, 2) THEN SelectIfLeft(e, "securityBriber")
         ELSE [e EXCEPT !.selectedPower = NoPower]
    ELSE [e EXCEPT !.selectedPower = NoPower]

PowerMatches(power, type) ==
  \/ power = "bridge" /\ type = "gap"
  \/ power = "doorBreaker" /\ type = "door"
  \/ power = "securityBriber" /\ type = "security"

RECURSIVE TryActivateLoop(_, _, _, _, _)
\* the loop of tryActivatePowerAtPosition from obstacle j on
TryActivateLoop(e, i, x, y, j) ==
  IF j > Len(e.obstacles) THEN e
  ELSE
    LET o == e.obstacles[j]
        a == activateSuperPower(e.passengers[i])
    IN IF /\ Within(x - (o.x + o.width \div 2), y - (o.y + o.height \div 2), Px(100))
          /\ PowerMatches(e.passengers[i].superPower, o.type)
          /\ a.ret
         THEN LET c == handleObstacleInteraction(
                         [p |-> a.p, obstacles |-> e.obstacles,
                          bridges |-> e.bridges, acts |-> 1], o)
              IN [e EXCEPT !.passengers[i] = [c.p EXCEPT !.superPower = NoPower],
                           !.obstacles = c.obstacles,
                           !.bridges = c.bridges,
                           !.used[i] = @ + c.acts,
                           !.selectedPassenger = 0]
         ELSE TryActivateLoop(e, i, x, y, j + 1)

tryActivatePowerAtPosition(e, i, x, y) ==
  IF e.passengers[i].superPower = NoPower \/ e.passengers[i].powerCooldown > 0 THEN e
  ELSE TryActivateLoop(e, i, x, y, 1)

\* the agents handleClick treats as clicked: body or star
Clicked(p, x, y) ==
  /\ p.isActive /\ ~p.hasReachedGate /\ p.superPower # NoPower
  /\ \/ /\ x >= p.x /\ x <= p.x + PassengerWidth
        /\ y >= p.y /\ y <= p.y + PassengerHeight
     \/ WithinEq(x - (p.x + PassengerWidth \div 2), y - (p.y - Px(15)), Px(14))

Assignable(p, x, y) ==
  /\ p.isActive /\ ~p.hasReachedGate /\ p.superPower = NoPower
  /\ Within(p.x - x, p.y - y, Px(50))

\* the least element of a set of indices, 0 if there is none
FirstIndex(S) == IF S = {} THEN 0 ELSE CHOOSE i \in S : \A j \in S : i <= j

\* handleClick while PLAYING, above the UI panel
handlePlayfieldClick(e, x, y) ==
  LET hit == FirstIndex({i \in 1..Len(e.passengers) : Clicked(e.passengers[i], x, y)})
      near == FirstIndex({i \in 1..Len(e.passengers) : Assignable(e.passengers[i], x, y)})
  IN IF hit # 0
       THEN tryActivatePowerAtPosition([e EXCEPT !.selectedPassenger = hit], hit, x, y)
     ELSE IF e.selectedPower # NoPower /\ e.powerCounts[e.selectedPower] > 0 /\ near # 0
       THEN [e EXCEPT !.passengers[near].superPower = e.selectedPower,
                      !.used[near] = 0,
                      !.powerCounts[e.selectedPower] = Max(0, @ - 1),
                      !.selectedPower = NoPower]
     ELSE IF e.selectedPassenger # 0
       THEN tryActivatePowerAtPosition(e, e.selectedPassenger, x, y)
     ELSE [e EXCEPT !.selectedPassenger = 0]

\* Mutant: the PLAYING guard before the in-game click handling is missing.
handleClick_NoPlayingGuard(e, x, y, t, layout) ==
  IF e.gameState = MENU THEN startLevel(e, 1, t, layout)
  ELSE IF e.gameState = LEVEL_COMPLETE THEN nextLevel(e, t, layout)
  ELSE IF e.gameState \in {GAME_OVER, VICTORY} THEN [e EXCEPT !.gameState = MENU]
  ELSE IF y >= canvas.height - uiHeight
    THEN handleUIClick(e, x, y, canvas.height - uiHeight)
  ELSE handlePlayfieldClick(e, x, y)

\* handleClick(x, y); t is Date.now() / 1000 and layout the level generated
\* if the click starts one.
handleClick(e, x, y, t, layout) ==
  IF e.gameState = MENU THEN startLevel(e, 1, t, layout)
  ELSE IF e.gameState = LEVEL_COMPLETE THEN nextLevel(e, t, layout)
  ELSE IF e.gameState \in {GAME_OVER, VICTORY} THEN [e EXCEPT !.gameState = MENU]
  ELSE IF e.gameState # PLAYING THEN e
  ELSE IF y >= canvas.height - uiHeight
    THEN handleUIClick(e, x, y, canvas.height - uiHeight)
  ELSE handlePlayfieldClick(e, x, y)


(***************************************************************************)
(* The engine as a state machine                                           *)
(***************************************************************************)
Eng ==
  [totalPassengers |-> totalPassengers, gameState |-> gameState, currentLevel |-> currentLevel, passengers |-> passengers,
   bridges |-> bridges, obstacles |-> obstacles, platforms |-> platforms,
   walls |-> walls, passengersSpawned |-> passengersSpawned, spawnTimer |-> spawnTimer,
   levelStartTime |-> levelStartTime, levelConfig |-> levelConfig,
   checkInGate |-> checkInGate, selectedPassenger |-> selectedPassenger,
   selectedPower |-> selectedPower, powerCounts |-> powerCounts, used |-> used,
   gateReturns |-> gateReturns]

Commit(e) ==
  /\ canvas' = canvas
  /\ totalPassengers' = e.totalPassengers
  /\ gameState' = e.gameState
  /\ currentLevel' = e.currentLevel
  /\ passengers' = e.passengers
  /\ bridges' = e.bridges
  /\ obstacles' = e.obstacles
  /\ platforms' = e.platforms
  /\ walls' = e.walls
  /\ passengersSpawned' = e.passengersSpawned
  /\ spawnTimer' = e.spawnTimer
  /\ levelStartTime' = e.levelStartTime
  /\ levelConfig' = e.levelConfig
  /\ checkInGate' = e.checkInGate
  /\ selectedPassenger' = e.selectedPassenger
  /\ selectedPower' = e.selectedPower
  /\ powerCounts' = e.powerCounts
  /\ used' = e.used
  /\ gateReturns' = e.gateReturns

NoProbe == [op |-> "none", pre |-> NewPassenger([x |-> 0, y |-> 0], NoPower),
            arg |-> [x |-> 0, y |-> 0],
            post |-> NewPassenger([x |-> 0, y |-> 0], NoPower), ret |-> FALSE]

\* The state after new GameEngine(canvas).
Init ==
  /\ canvas = NarrowCanvas
  /\ totalPassengers = AgentCap
  /\ gameState = MENU
  /\ currentLevel = 1
  /\ passengers = << >>
  /\ bridges = << >>
  /\ obstacles = << >>
  /\ platforms = << >>
  /\ walls = << >>
  /\ passengersSpawned = 0
  /\ spawnTimer = 0
  /\ levelStartTime = 0
  /\ levelConfig = NullConfig
  /\ checkInGate = [x |-> 0, y |-> 0]
  /\ selectedPassenger = 0
  /\ selectedPower = NoPower
  /\ powerCounts = initializePowerCounts
  /\ now = 0
  /\ lastOp = "new"
  /\ played = 0
  /\ passedLevels = << >>
  /\ used = << >>
  /\ gateReturns = << >>
  /\ probe = NoProbe

\* Frame times handed to update (index.ts clamps them to 0.1 s).
DeltaTimes == {MaxDeltaTime}
\* Amounts by which the wall clock is seen to advance between two calls.
ClockSteps == {levelTimeLimit}

\* Where the player clicks: the bridge icon of the UI panel, and a point of
\* the playfield on the ground walkers' way, 88 px left of the middle of gap_1.
IconPoint(k) == [x |-> Px(10) + k * Px(40) + Px(16),
                 y |-> canvas.height - uiHeight + Px(40) + Px(16)]
FieldPoint == [x |-> Px(337), y |-> groundLevel - Px(16)]
ClickPoints == {IconPoint(0), FieldPoint}

Update(dt, superPower) ==
  \E e \in {update(Eng, dt, now, superPower)} :
     /\ \A i \in 1..Len(e.passengers) : e.passengers[i].y <= Px(MaxFallPx)
     /\ Commit(e)
     /\ lastOp' = "update"
     /\ passedLevels' = IF gameState = PLAYING /\ e.gameState \in {LEVEL_COMPLETE, VICTORY}
                          THEN Append(passedLevels, currentLevel) ELSE passedLevels
     /\ UNCHANGED <<now, played, probe>>

HandleClick(pt, layout) ==
  \E e \in {handleClick(Eng, pt.x, pt.y, now, layout)} :
     /\ Commit(e)
     /\ lastOp' = "click"
     /\ played' = IF gameState \in {MENU, LEVEL_COMPLETE} /\ e.gameState = PLAYING
                    THEN 0 ELSE played
     /\ passedLevels' = IF gameState = MENU THEN << >> ELSE passedLevels
     /\ UNCHANGED <<now, probe>>

Pause ==
  /\ \E e \in {pause(Eng)} : Commit(e)
  /\ lastOp' = "pause"
  /\ UNCHANGED <<now, played, probe, passedLevels>>

\* The wall clock advances between two calls.
Tick(d) ==
  /\ now + d <= MaxNow
  /\ now' = now + d
  /\ played' = IF gameState = PLAYING THEN played + d ELSE played
  /\ lastOp' = "tick"
  /\ UNCHANGED <<canvas, simVars, totalPassengers, gameState, used, probe, gateReturns,
               passedLevels>>

Next ==
  \/ \E dt \in DeltaTimes, sp \in SuperPowers : Update(dt, sp)
  \/ \E pt \in ClickPoints, layout \in Layouts : HandleClick(pt, layout)
  \/ Pause
  \/ \E d \in ClockSteps : Tick(d)

Spec == Init /\ [][Next]_vars


(***************************************************************************)
(* Passenger methods on their own: an agent in any of PassengerStates      *)
(***************************************************************************)
Cooldowns == {0 - 5, 0, MaxDeltaTime, PowerCooldown}

PassengerStates ==
  {[NewPassenger([x |-> Px(50), y |-> Px(18)], sp) EXCEPT
      !.isActive = act, !.hasReachedGate = ~act, !.isFalling = fall,
      !.direction = dir, !.isUsingPower = using, !.powerCooldown = cd] :
     sp \in SuperPowers, act \in BOOLEAN, fall \in BOOLEAN, dir \in {1, 0 - 1},
     using \in BOOLEAN, cd \in Cooldowns}

InitPassenger ==
  /\ canvas = NarrowCanvas
  /\ totalPassengers = AgentCap
  /\ gameState = MENU
  /\ currentLevel = 1
  /\ passengers \in {<<p>> : p \in PassengerStates}
  /\ bridges = << >>
  /\ obstacles = << >>
  /\ platforms = << >>
  /\ walls = << >>
  /\ passengersSpawned = 1
  /\ spawnTimer = 0
  /\ levelStartTime = 0
  /\ levelConfig = NullConfig
  /\ checkInGate = [x |-> 0, y |-> 0]
  /\ selectedPassenger = 0
  /\ selectedPower = NoPower
  /\ powerCounts = initializePowerCounts
  /\ now = 0
  /\ lastOp = "new"
  /\ played = 0
  /\ passedLevels = << >>
  /\ used = <<0>>
  /\ gateReturns = <<0>>
  /\ probe = NoProbe

\* what a direct call of a Passenger method leaves alone
PassengerFrame ==
  UNCHANGED <<canvas, totalPassengers, gameState, currentLevel, bridges, obstacles, platforms,
              walls, passengersSpawned, spawnTimer, levelStartTime, levelConfig,
              checkInGate, selectedPassenger, selectedPower, powerCounts,
              now, played, used, passedLevels>>

CallActivateSuperPower ==
  LET a == activateSuperPower(passengers[1])
  IN /\ passengers' = <<a.p>>
     /\ probe' = [op |-> "activateSuperPower", pre |-> passengers[1],
                  arg |-> NoProbe.arg, post |-> a.p, ret |-> a.ret]
     /\ lastOp' = "activateSuperPower"
     /\ UNCHANGED gateReturns
     /\ PassengerFrame

CallStopUsingPower ==
  LET q == stopUsingPower(passengers[1])
  IN /\ passengers' = <<q>>
     /\ probe' = [op |-> "stopUsingPower", pre |-> passengers[1],
                  arg |-> NoProbe.arg, post |-> q, ret |-> FALSE]
     /\ lastOp' = "stopUsingPower"
     /\ UNCHANGED gateReturns
     /\ PassengerFrame

\* Gate positions handed to checkReachedGate: one whose rectangle holds the
\* agent of PassengerStates, and the gate of the level, which does not.
GateHere == [x |-> Px(40), y |-> Px(20)]
GateOfLevel == [x |-> canvas.width - Px(150), y |-> groundLevel - Px(30)]
GatePositions == {GateHere, GateOfLevel}

CallCheckReachedGate(gatePosition) ==
  LET g == checkReachedGate(passengers[1], gatePosition, gateWidth)
  IN /\ passengers' = <<g.p>>
     /\ probe' = [op |-> "checkReachedGate", pre |-> passengers[1],
                  arg |-> gatePosition, post |-> g.p, ret |-> g.ret]
     /\ lastOp' = "checkReachedGate"
     /\ gateReturns' = <<gateReturns[1] + (IF g.ret THEN 1 ELSE 0)>>
     /\ PassengerFrame

NextPassenger ==
  \/ CallActivateSuperPower
  \/ CallStopUsingPower
  \/ \E gatePosition \in GatePositions : CallCheckReachedGate(gatePosition)

SpecPassenger == InitPassenger /\ [][NextPassenger]_vars


(***************************************************************************)
(* One level followed with several agents: the engine with the cap         *)
(* CrowdCap, the clock standing still and no pause.                        *)
(***************************************************************************)
InitCrowd ==
  /\ canvas = NarrowCanvas
  /\ totalPassengers = CrowdCap
  /\ gameState = MENU
  /\ currentLevel = 1
  /\ passengers = << >>
  /\ bridges = << >>
  /\ obstacles = << >>
  /\ platforms = << >>
  /\ walls = << >>
  /\ passengersSpawned = 0
  /\ spawnTimer = 0
  /\ levelStartTime = 0
  /\ levelConfig = NullConfig
  /\ checkInGate = [x |-> 0, y |-> 0]
  /\ selectedPassenger = 0
  /\ selectedPower = NoPower
  /\ powerCounts = initializePowerCounts
  /\ now = 0
  /\ lastOp = "new"
  /\ played = 0
  /\ passedLevels = << >>
  /\ used = << >>
  /\ gateReturns = << >>
  /\ probe = NoProbe

\* Where the player clicks: the bridge icon, a point on the ground walkers'
\* way 37 px left of FieldPoint, and a point near the right edge of the
\* canvas, 80 px left of the middle of the checkpoint.
TrailPoint == [x |-> Px(300), y |-> groundLevel - Px(16)]
EdgePoint == [x |-> Px(480), y |-> Px(150)]
CrowdClickPoints == {IconPoint(0), TrailPoint, EdgePoint}

\* The abilities drawn for the agents of the crowd.
CrowdPowers == {NoPower, "securityBriber"}

\* A click that does not start a level: the crowd is followed through level 1.
CrowdClick(pt, layout) ==
  /\ gameState # LEVEL_COMPLETE
  /\ HandleClick(pt, layout)
  /\ \A k \in Powers : powerCounts'[k] + MaxAssigned >= initializePowerCounts[k]

NextCrowd ==
  \/ \E dt \in DeltaTimes, sp \in CrowdPowers : Update(dt, sp)
  \/ \E pt \in CrowdClickPoints, layout \in Layouts : CrowdClick(pt, layout)

SpecCrowd == InitCrowd /\ [][NextCrowd]_vars

(***************************************************************************)
(* One level whose floor is barred by a vertical wall.                     *)
(***************************************************************************)
WalledPowers == {NoPower, "doorBreaker"}

\* A click that does not leave the level.
WalledClick(pt) ==
  /\ gameState \in {MENU, PLAYING}
  /\ HandleClick(pt, LayoutW)

NextWalled ==
  \/ \E dt \in DeltaTimes, sp \in WalledPowers : Update(dt, sp)
  \/ \E pt \in ClickPoints : WalledClick(pt)

SpecWalled == Init /\ [][NextWalled]_vars

(***************************************************************************)
(* One level whose floor is barred by a door.                              *)
(***************************************************************************)
\* A click that does not leave the level.
DoorClick(pt) ==
  /\ gameState \in {MENU, PLAYING}
  /\ HandleClick(pt, LayoutD)

NextDoor ==
  \/ \E dt \in DeltaTimes, sp \in WalledPowers : Update(dt, sp)
  \/ \E pt \in ClickPoints : DoorClick(pt)

SpecDoor == Init /\ [][NextDoor]_vars

(***************************************************************************)
(* The level barred by a door, with the player handing out door breakers   *)
(* and clicking on the agent held up at the door.                          *)
(***************************************************************************)
\* Where the player clicks: the door breaker icon, and a point of the
\* playfield inside the body of an agent standing at the door, 44 px from
\* the middle of the door.
DoorPoint == [x |-> Px(290), y |-> groundLevel - Px(16)]
ReassignClickPoints == {IconPoint(1), DoorPoint}

NextReassign ==
  \/ \E dt \in DeltaTimes, sp \in WalledPowers : Update(dt, sp)
  \/ \E pt \in ReassignClickPoints : DoorClick(pt)

SpecReassign == Init /\ [][NextReassign]_vars

(***************************************************************************)
(* One level on the wide canvas, with overlapping floor gaps and a crowd.   *)
(***************************************************************************)
InitWide ==
  /\ canvas = WideCanvas
  /\ totalPassengers = CrowdCap
  /\ gameState = MENU
  /\ currentLevel = 1
  /\ passengers = << >>
  /\ bridges = << >>
  /\ obstacles = << >>
  /\ platforms = << >>
  /\ walls = << >>
  /\ passengersSpawned = 0
  /\ spawnTimer = 0
  /\ levelStartTime = 0
  /\ levelConfig = NullConfig
  /\ checkInGate = [x |-> 0, y |-> 0]
  /\ selectedPassenger = 0
  /\ selectedPower = NoPower
  /\ powerCounts = initializePowerCounts
  /\ now = 0
  /\ lastOp = "new"
  /\ played = 0
  /\ passedLevels = << >>
  /\ used = << >>
  /\ gateReturns = << >>
  /\ probe = NoProbe

GapPowers == {NoPower, "bridge"}

\* A click that does not leave the level.
GapsClick(pt) ==
  /\ gameState \in {MENU, PLAYING}
  /\ HandleClick(pt, LayoutG)

NextGaps ==
  \/ \E dt \in DeltaTimes, sp \in GapPowers : Update(dt, sp)
  \/ \E pt \in ClickPoints : GapsClick(pt)

SpecGaps == InitWide /\ [][NextGaps]_vars

(***************************************************************************)
(* One level whose first extra platform lies at one of FallHeights: the    *)
(* agent drops from the spawn platform and from platform_0 to the floor.   *)
(***************************************************************************)
\* A click that does not leave the level; layout is the level generated if
\* the click starts one.
FallClick(pt, layout) ==
  /\ gameState \in {MENU, PLAYING}
  /\ HandleClick(pt, layout)

NextFall ==
  \/ \E dt \in DeltaTimes : Update(dt, NoPower)
  \/ \E pt \in ClickPoints, y \in FallHeights : FallClick(pt, LayoutF(y))

SpecFall == Init /\ [][NextFall]_vars

(***************************************************************************)
(* The level barred by a wall, played with pauses and an advancing clock,  *)
(* under the scheduling of the game loop: the wall clock moves on, a       *)
(* paused game is resumed, and frames keep being drawn while the game is   *)
(* Playing (assumed only of the frames drawn once the time limit has run   *)
(* out).                                                                   *)
(***************************************************************************)
\* A click that does not leave the level.
LiveClick(pt) ==
  /\ gameState \in {MENU, PLAYING, PAUSED}
  /\ HandleClick(pt, LayoutW)

\* update called by a frame of the game loop while the game is Playing and
\* the time limit of the level has run out
LateFrame ==
  /\ gameState = PLAYING
  /\ now - levelStartTime >= levelTimeLimit
  /\ \E dt \in DeltaTimes, sp \in WalledPowers : Update(dt, sp)

\* pause() called on a paused game
Resume == gameState = PAUSED /\ Pause

NextLive ==
  \/ \E dt \in DeltaTimes, sp \in WalledPowers : Update(dt, sp)
  \/ \E pt \in ClickPoints : LiveClick(pt)
  \/ Pause
  \/ \E d \in ClockSteps : Tick(d)

SpecLive ==
  /\ Init
  /\ [][NextLive]_vars
  /\ SF_vars(LateFrame)
  /\ WF_vars(\E d \in ClockSteps : Tick(d))
  /\ WF_vars(Resume)

(***************************************************************************)
(* CollisionSystem.checkAABB on its own, called with any two of Boxes.     *)
(***************************************************************************)
BoxCoords == {0, Px(10), Px(20)}
BoxSizes == {Px(10), Px(20)}
Boxes == {Box(x, y, w, h) : x \in BoxCoords, y \in BoxCoords, w \in BoxSizes, h \in BoxSizes}

\* checkAABB(box1, box2); probe keeps the two boxes and the value returned.
CallCheckAABB(box1, box2) ==
  /\ probe' = [op |-> "checkAABB", pre |-> box1, arg |-> box2, post |-> box1,
                ret |-> checkAABB(box1, box2)]
  /\ lastOp' = "checkAABB"
  /\ UNCHANGED <<passengers, gateReturns>>
  /\ PassengerFrame

NextBoxes == \E box1 \in Boxes, box2 \in Boxes : CallCheckAABB(box1, box2)

SpecBoxes == Init /\ [][NextBoxes]_vars

(***************************************************************************)
(* CollisionSystem.resolveCollision on its own, called with any two of     *)
(* Boxes.                                                                  *)
(***************************************************************************)
\* resolveCollision(entityBounds, obstacleBounds); probe keeps the two boxes
\* and the record returned.
CallResolveCollision(entityBounds, obstacleBounds) ==
  /\ probe' = [op |-> "resolveCollision", pre |-> entityBounds, arg |-> obstacleBounds,
                post |-> resolveCollision(entityBounds, obstacleBounds), ret |-> FALSE]
  /\ lastOp' = "resolveCollision"
  /\ UNCHANGED <<passengers, gateReturns>>
  /\ PassengerFrame

NextResolve ==
  \E entityBounds \in Boxes, obstacleBounds \in Boxes :
     CallResolveCollision(entityBounds, obstacleBounds)

SpecResolve == Init /\ [][NextResolve]_vars

(***************************************************************************)
(* The ability inventory under clicks: a level in progress with the agents *)
(* on the floor near TrailPoint, the inventory as earlier assignments of   *)
(* the level may have left it, and the player clicking.                    *)
(***************************************************************************)
RECURSIVE Played(_, _)
\* the engine after n more frames of 0.1 s in which no ability is drawn
Played(e, n) ==
  IF n = 0 THEN e
  ELSE CHOOSE r \in {Played(f, n - 1) : f \in {update(e, MaxDeltaTime, 0, NoPower)}} : TRUE

\* Frames after which the first agent walks at x = 300.
InventoryTicks == 54
\* the engine after new GameEngine(canvas), with the cap of a crowd
NewEngine ==
  [totalPassengers |-> CrowdCap, gameState |-> MENU, currentLevel |-> 1,
   passengers |-> << >>, bridges |-> << >>, obstacles |-> << >>,
   platforms |-> << >>, walls |-> << >>, passengersSpawned |-> 0,
   spawnTimer |-> 0, levelStartTime |-> 0, levelConfig |-> NullConfig,
   checkInGate |-> [x |-> 0, y |-> 0], selectedPassenger |-> 0,
   selectedPower |-> NoPower, powerCounts |-> initializePowerCounts,
   used |-> << >>, gateReturns |-> << >>]
InventoryBase == Played(startLevel(NewEngine, 1, 0, LayoutA), InventoryTicks)

LowCounts == {0, 1}
InventoryCounts == [Powers -> LowCounts] \cup {initializePowerCounts}

InitInventory ==
  /\ canvas = NarrowCanvas
  /\ \E pc \in InventoryCounts :
       \E sp \in {NoPower} \cup {k \in Powers : pc[k] > 0} :
         \E e \in {[InventoryBase EXCEPT !.powerCounts = pc, !.selectedPower = sp]} :
           /\ totalPassengers = e.totalPassengers
           /\ gameState = e.gameState
           /\ currentLevel = e.currentLevel
           /\ passengers = e.passengers
           /\ bridges = e.bridges
           /\ obstacles = e.obstacles
           /\ platforms = e.platforms
           /\ walls = e.walls
           /\ passengersSpawned = e.passengersSpawned
           /\ spawnTimer = e.spawnTimer
           /\ levelStartTime = e.levelStartTime
           /\ levelConfig = e.levelConfig
           /\ checkInGate = e.checkInGate
           /\ selectedPassenger = e.selectedPassenger
           /\ selectedPower = e.selectedPower
           /\ powerCounts = e.powerCounts
           /\ used = e.used
           /\ gateReturns = e.gateReturns
           /\ now = 0
           /\ lastOp = "update"
           /\ played = 0
           /\ passedLevels = << >>
           /\ probe = NoProbe

\* Where the player clicks: the three ability icons, a point of the UI panel
\* on no icon, and TrailPoint.
\* the middle of the icon of an ability
IconOf(power) ==
  IconPoint(CASE power = "bridge" -> 0
              [] power = "doorBreaker" -> 1
              [] power = "securityBriber" -> 2)
PanelPoint == [x |-> Px(250), y |-> canvas.height - Px(10)]
InventoryClickPoints == {IconOf(k) : k \in Powers} \cup {PanelPoint, TrailPoint}

\* handleClick(pt.x, pt.y); probe keeps the point of the click.
InventoryClick(pt) ==
  \E e \in {handleClick(Eng, pt.x, pt.y, now, LayoutA)} :
     /\ Commit(e)
     /\ lastOp' = "click"
     /\ probe' = [NoProbe EXCEPT !.op = "handleClick", !.arg = pt]
     /\ UNCHANGED <<now, played, passedLevels>>

NextInventory == \E pt \in InventoryClickPoints : InventoryClick(pt)

SpecInventory == InitInventory /\ [][NextInventory]_vars


(***************************************************************************)
(* handleObstacleInteraction on its own: level 1 just loaded, one agent in *)
(* any of PassengerStates, and an encounter with any obstacle of the       *)
(* level.                                                                  *)
(***************************************************************************)
InitEncounter ==
  /\ canvas = NarrowCanvas
  /\ \E e \in {startLevel(NewEngine, 1, 0, LayoutA)} :
       /\ totalPassengers = e.totalPassengers
       /\ gameState = e.gameState
       /\ currentLevel = e.currentLevel
       /\ passengers \in {<<p>> : p \in PassengerStates}
       /\ bridges = e.bridges
       /\ obstacles = e.obstacles
       /\ platforms = e.platforms
       /\ walls = e.walls
       /\ passengersSpawned = 1
       /\ spawnTimer = e.spawnTimer
       /\ levelStartTime = e.levelStartTime
       /\ levelConfig = e.levelConfig
       /\ checkInGate = e.checkInGate
       /\ selectedPassenger = e.selectedPassenger
       /\ selectedPower = e.selectedPower
       /\ powerCounts = e.powerCounts
  /\ now = 0
  /\ lastOp = "new"
  /\ played = 0
  /\ passedLevels = << >>
  /\ used = <<0>>
  /\ gateReturns = <<0>>
  /\ probe = NoProbe

\* handleObstacleInteraction(passenger, obstacle) for the k-th obstacle of the
\* level; probe keeps the agent before and after, and the obstacle.
CallHandleObstacleInteraction(k) ==
  \E c \in {handleObstacleInteraction(
               [p |-> passengers[1], obstacles |-> obstacles, bridges |-> bridges,
                acts |-> 0], obstacles[k])} :
     /\ passengers' = <<c.p>>
     /\ obstacles' = c.obstacles
     /\ bridges' = c.bridges
     /\ used' = <<used[1] + c.acts>>
     /\ probe' = [op |-> "handleObstacleInteraction", pre |-> passengers[1],
                   arg |-> obstacles[k], post |-> c.p, ret |-> c.acts > 0]
     /\ lastOp' = "handleObstacleInteraction"
     /\ UNCHANGED <<canvas, totalPassengers, gameState, currentLevel, platforms, walls,
                    passengersSpawned, spawnTimer, levelStartTime, levelConfig,
                    checkInGate, selectedPassenger, selectedPower, powerCounts,
                    now, played, gateReturns, passedLevels>>

NextEncounter == \E k \in 1..Len(obstacles) : CallHandleObstacleInteraction(k)

SpecEncounter == InitEncounter /\ [][NextEncounter]_vars


(***************************************************************************)
(* update observed from inside: probe keeps the first agent as it is when  *)
(* passengers.forEach reaches it and as its Passenger.update leaves it.    *)
(***************************************************************************)
\* update(dt) called when Date.now() / 1000 is t.
UpdateAt(dt, t, superPower) ==
  \E e0 \in {buildPlatformsAndWalls(spawnStep(Eng, dt, superPower))} :
    \E e \in {update(Eng, dt, t, superPower)} :
       /\ \A i \in 1..Len(e.passengers) : e.passengers[i].y <= Px(MaxFallPx)
       /\ Commit(e)
       /\ lastOp' = "update"
       /\ passedLevels' = IF gameState = PLAYING /\ e.gameState \in {LEVEL_COMPLETE, VICTORY}
                            THEN Append(passedLevels, currentLevel) ELSE passedLevels
       /\ probe' = IF /\ gameState = PLAYING
                      /\ t - levelStartTime < levelTimeLimit
                      /\ Len(e0.passengers) > 0
                     THEN [op |-> "update",
                           pre |-> e0.passengers[1],
                           arg |-> [dt |-> dt],
                           post |-> PassengerUpdate(e0.passengers[1], dt, e0.platforms,
                                                    e0.walls, e0.checkInGate.x,
                                                    e0.checkInGate.y),
                           ret |-> FALSE]
                     ELSE NoProbe

\* update called with the wall clock standing still
ProbedUpdate(dt, superPower) ==
  /\ UpdateAt(dt, now, superPower)
  /\ UNCHANGED <<now, played>>

(***************************************************************************)
(* One level in which a platform leads over the top of a door to two       *)
(* walls.                                                                  *)
(***************************************************************************)
\* A click that does not leave the level.
LedgeClick(pt) ==
  /\ gameState \in {MENU, PLAYING}
  /\ HandleClick(pt, LayoutL)

NextLedge ==
  \/ \E dt \in DeltaTimes, sp \in WalledPowers : ProbedUpdate(dt, sp)
  \/ \E pt \in ClickPoints : LedgeClick(pt)

SpecLedge == Init /\ [][NextLedge]_vars


(***************************************************************************)
(* The game loop at a steady frame rate: gameLoop hands update the wall     *)
(* time passed since the frame before (index.ts clamps it to 0.1 s), so    *)
(* that while the game is Playing the wall clock and the sum of the frame  *)
(* times move together; played is that sum.                                *)
(***************************************************************************)
\* One frame of gameLoop while the game is Playing, dt after the frame before.
Frame(dt, superPower) ==
  /\ gameState = PLAYING
  /\ now + dt <= MaxNow
  /\ UpdateAt(dt, now + dt, superPower)
  /\ now' = now + dt
  /\ played' = played + dt

\* A display drawing a frame every 0.03 s; the level is the one barred by a
\* wall, which holds the agents up on the floor.
SlowTimes == {3}

NextFrames ==
  \/ \E dt \in SlowTimes, sp \in GapPowers : Frame(dt, sp)
  \/ \E pt \in ClickPoints : WalledClick(pt)

SpecFrames == Init /\ [][NextFrames]_vars

\* A display drawing a frame every 0.04 s, and a crowd.
SpawnTimes == {4}

NextSpawn ==
  \/ \E dt \in SpawnTimes : Frame(dt, NoPower)
  \/ \E pt \in ClickPoints, layout \in Layouts : CrowdClick(pt, layout)

SpecSpawn == InitCrowd /\ [][NextSpawn]_vars


(***************************************************************************)
(* Properties                                                              *)
(***************************************************************************)

\* C1: an update call made while Playing with at least 300 s elapsed since
\* the level started sets the state to GameOver, whatever the counts are,
\* and does no spawning, physics or win evaluation: nothing else changes.
C1_TimeoutEndsLevel ==
  [][(lastOp' = "update" /\ gameState = PLAYING
        /\ now - levelStartTime >= levelTimeLimit)
       => (gameState' = GAME_OVER /\ UNCHANGED simVars)]_vars

\* a timed-out level: GameOver set by update before every agent was spawned
C1_Witness ==
  /\ gameState = GAME_OVER
  /\ lastOp = "update"
  /\ now - levelStartTime >= levelTimeLimit
  /\ passengersSpawned < totalPassengers
  /\ spawnTimer > 0

\* C2 as stated: Playing goes to GameOver if and only if all agents are
\* resolved and fewer than the pass mark reached the gate, and to
\* LevelComplete or Victory if and only if the pass mark is reached.
C2_AsStated ==
  [][(lastOp' = "update" /\ gameState = PLAYING)
       => /\ gameState' = GAME_OVER
               <=> /\ passengersSpawned' = totalPassengers
                   /\ ActiveCount(passengers') = 0
                   /\ ReachedCount(passengers') < passMark
          /\ gameState' \in {LEVEL_COMPLETE, VICTORY}
               <=> ReachedCount(passengers') >= passMark]_vars

\* C2 amended: an update call moves Playing to GameOver if and only if the
\* time limit has run out at that call, or all agents are resolved after it
\* and fewer than the pass mark reached the gate; it moves Playing to
\* LevelComplete or Victory if and only if the time limit has not run out,
\* all agents are resolved and the pass mark is reached.  No other call
\* moves Playing to one of the three.
C2_Amended ==
  [][gameState = PLAYING
       => /\ lastOp' = "update"
               => /\ gameState' = GAME_OVER
                       <=> \/ now - levelStartTime >= levelTimeLimit
                           \/ /\ passengersSpawned' >= totalPassengers
                              /\ ActiveCount(passengers') = 0
                              /\ ReachedCount(passengers') < passMark
                  /\ gameState' \in {LEVEL_COMPLETE, VICTORY}
                       <=> /\ now - levelStartTime < levelTimeLimit
                           /\ passengersSpawned' >= totalPassengers
                           /\ ActiveCount(passengers') = 0
                           /\ ReachedCount(passengers') >= passMark
          /\ gameState' \in {GAME_OVER, LEVEL_COMPLETE, VICTORY}
               => lastOp' = "update"]_vars

\* a level passed by the win check within the time limit
C2_Witness ==
  /\ gameState = LEVEL_COMPLETE
  /\ lastOp = "update"
  /\ now - levelStartTime < levelTimeLimit
  /\ passengersSpawned = totalPassengers
  /\ ReachedCount(passengers) >= passMark

\* C3: update moves Playing to LevelComplete or Victory only in a call after
\* which every agent is spawned, none is active and unreached and the pass
\* mark is reached; the new state is then Victory exactly at the final level
\* and LevelComplete exactly below it.
C3_PassedLevel ==
  [][(gameState = PLAYING /\ gameState' \in {LEVEL_COMPLETE, VICTORY})
       => /\ lastOp' = "update"
          /\ passengersSpawned' >= totalPassengers
          /\ ActiveCount(passengers') = 0
          /\ ReachedCount(passengers') >= passMark
          /\ currentLevel' = currentLevel
          /\ gameState' = VICTORY <=> currentLevel = FinalLevel
          /\ gameState' = LEVEL_COMPLETE <=> currentLevel < FinalLevel]_vars

\* the final level passed
C3_Witness ==
  /\ gameState = VICTORY
  /\ lastOp = "update"
  /\ currentLevel = FinalLevel
  /\ ReachedCount(passengers) >= passMark
  /\ ActiveCount(passengers) = 0

\* C4: time spent Paused does not count toward the level limit: update ends
\* a level on the time limit only when the time played un-paused since the
\* level started has itself reached the limit.
C4_PauseStopsClock ==
  [][(lastOp' = "update" /\ gameState = PLAYING /\ gameState' = GAME_OVER
        /\ UNCHANGED simVars)
       => played >= levelTimeLimit]_vars

\* C5: while Paused, update and handleClick leave the whole simulation state
\* and the game state unchanged; only pause() leaves Paused, and it goes to
\* Playing.
C5_PausedFrozen ==
  [][gameState = PAUSED
       => /\ lastOp' \in {"update", "click"} => UNCHANGED <<simVars, gameState>>
          /\ gameState' # PAUSED
               => /\ lastOp' = "pause"
                  /\ gameState' = PLAYING
                  /\ UNCHANGED simVars]_vars

\* a click made while Paused, with an agent in the level and no power chosen
C5_Witness ==
  /\ gameState = PAUSED
  /\ lastOp = "click"
  /\ Len(passengers) > 0
  /\ selectedPower = NoPower

\* C6: the game state changes only along Menu->Playing (click),
\* Playing->Paused and Paused->Playing (pause), Playing->GameOver,
\* LevelComplete or Victory (update), LevelComplete->Playing (click),
\* GameOver->Menu and Victory->Menu (click); pause() has no effect in Menu,
\* LevelComplete, GameOver and Victory, and update none outside Playing.
C6_Transitions ==
  [][/\ gameState' # gameState
          => \/ gameState = MENU /\ gameState' = PLAYING /\ lastOp' = "click"
             \/ gameState = PLAYING /\ gameState' = PAUSED /\ lastOp' = "pause"
             \/ gameState = PAUSED /\ gameState' = PLAYING /\ lastOp' = "pause"
             \/ /\ gameState = PLAYING
                /\ gameState' \in {GAME_OVER, LEVEL_COMPLETE, VICTORY}
                /\ lastOp' = "update"
             \/ gameState = LEVEL_COMPLETE /\ gameState' = PLAYING /\ lastOp' = "click"
             \/ gameState = GAME_OVER /\ gameState' = MENU /\ lastOp' = "click"
             \/ gameState = VICTORY /\ gameState' = MENU /\ lastOp' = "click"
     /\ (lastOp' = "pause" /\ gameState \in {MENU, LEVEL_COMPLETE, GAME_OVER, VICTORY})
          => UNCHANGED <<gameState, simVars>>
     /\ (lastOp' = "update" /\ gameState # PLAYING)
          => UNCHANGED <<gameState, simVars>>]_vars

\* pause() called after the last level was won
C6_Witness ==
  /\ gameState = VICTORY
  /\ lastOp = "pause"
  /\ currentLevel = FinalLevel

\* C7: the agents that reached the gate, the active agents and the agents
\* that are neither add up to passengersSpawned, which is the length of the
\* agent list and never exceeds the cap.
C7_SumInvariant ==
  /\ Cardinality({i \in 1..Len(passengers) : passengers[i].hasReachedGate})
       + Cardinality({i \in 1..Len(passengers) : passengers[i].isActive})
       + Cardinality({i \in 1..Len(passengers) :
                        ~passengers[i].isActive /\ ~passengers[i].hasReachedGate})
       = passengersSpawned
  /\ passengersSpawned = Len(passengers)
  /\ passengersSpawned <= totalPassengers

\* every agent spawned and one of them arrived
C7_Witness ==
  /\ passengersSpawned = totalPassengers
  /\ lastOp = "update"
  /\ \E i \in 1..Len(passengers) :
       passengers[i].hasReachedGate /\ ~passengers[i].isActive

\* C8: an ability used in an engine obstacle encounter is gone by the end of
\* that encounter: no agent holds an ability with which it has already made
\* a successful activation.
C8_UsedAbilityCleared ==
  \A i \in 1..Len(passengers) :
     used[i] > 0 => passengers[i].superPower = NoPower

\* C9: an agent makes at most one successful activation between two
\* assignments of an ability (used counts them since the agent was spawned
\* or last assigned an ability by handleClick).
C9_OneActivation ==
  /\ Len(used) = Len(passengers)
  /\ \A i \in 1..Len(used) : used[i] <= 1

\* an agent that used its ability, still holds it and whose cooldown has run
\* out was clicked with an obstacle of its kind in range, and stayed selected
C9_Witness ==
  /\ gameState = PLAYING
  /\ lastOp = "click"
  /\ selectedPassenger # 0
  /\ \E i \in 1..Len(passengers) :
       /\ selectedPassenger = i
       /\ used[i] = 1
       /\ passengers[i].superPower = "bridge"
       /\ passengers[i].powerCooldown <= 0
       /\ Clicked(passengers[i], FieldPoint.x, FieldPoint.y)
       /\ \E j \in 1..Len(obstacles) :
            /\ obstacles[j].type = "gap"
            /\ Within(FieldPoint.x - (obstacles[j].x + obstacles[j].width \div 2),
                      FieldPoint.y - (obstacles[j].y + obstacles[j].height \div 2),
                      Px(100))

\* C10: activateSuperPower returns true, sets isUsingPower and starts the
\* 2 s cooldown exactly when the agent holds an ability, its cooldown is not
\* positive and isUsingPower is false; otherwise it returns false and
\* changes no field.
C10_ActivateContract ==
  probe.op = "activateSuperPower"
    => LET ok == /\ probe.pre.superPower # NoPower
                 /\ ~(probe.pre.powerCooldown > 0)
                 /\ ~probe.pre.isUsingPower
       IN /\ probe.ret <=> ok
          /\ ok => probe.post = [probe.pre EXCEPT !.isUsingPower = TRUE,
                                                  !.powerCooldown = 200]
          /\ ~ok => probe.post = probe.pre

\* a call refused on the cooldown alone
C10_Witness ==
  /\ probe.op = "activateSuperPower"
  /\ ~probe.ret
  /\ probe.pre.superPower # NoPower
  /\ ~probe.pre.isUsingPower
  /\ probe.pre.powerCooldown > 0
  /\ probe.post = probe.pre

\* C11: checkReachedGate returns true at most once per agent; the call that
\* returns true sets hasReachedGate and clears isActive, and a call on an
\* agent that has arrived returns false and changes nothing, wherever the
\* agent stands.
C11_ReachedOnce ==
  /\ \A i \in 1..Len(gateReturns) : gateReturns[i] <= 1
  /\ probe.op = "checkReachedGate"
       => /\ probe.ret => /\ ~probe.pre.hasReachedGate
                          /\ probe.post = [probe.pre EXCEPT !.hasReachedGate = TRUE,
                                                            !.isActive = FALSE]
          /\ probe.pre.hasReachedGate => ~probe.ret
          /\ ~probe.ret => probe.post = probe.pre

\* after the call that returned true, a call on the agent, which still
\* stands in the gate rectangle
C11_Witness ==
  /\ probe.op = "checkReachedGate"
  /\ probe.arg = GateHere
  /\ probe.pre.hasReachedGate
  /\ gateReturns = <<1>>
  /\ ~probe.ret
  /\ probe.pre.x + PassengerWidth >= probe.arg.x
  /\ probe.pre.x <= probe.arg.x + gateWidth
  /\ probe.pre.y + PassengerHeight >= probe.arg.y
  /\ probe.pre.y <= probe.arg.y + Px(50)

\* C12: once an agent's hasReachedGate is true, no later update or click of
\* the same level attempt changes any field of that agent.
C12_ArrivedFrozen ==
  [][gameState = PLAYING =>
       \A i \in 1..Len(passengers) :
          passengers[i].hasReachedGate
             => /\ i <= Len(passengers')
                /\ passengers'[i] = passengers[i]]_vars

\* C13: every inventory count stays between 0 and its initial value; while a
\* kind's count is 0 a click on its icon leaves selectedPower unchanged, no
\* click selects the kind and no click gives the kind to an agent.
C13_Inventory ==
  [][/\ \A k \in Powers : powerCounts'[k] \in 0..initializePowerCounts[k]
     /\ probe'.op = "handleClick" /\ gameState = PLAYING
          => \A k \in Powers :
               powerCounts[k] = 0
                 => /\ probe'.arg = IconOf(k) => selectedPower' = selectedPower
                    /\ selectedPower' # k
                    /\ Len(passengers') = Len(passengers)
                    /\ \A i \in 1..Len(passengers) :
                         passengers'[i].superPower = k
                            => passengers[i].superPower = k]_vars

\* The last bridge has gone to the first agent, the door breaker was then
\* selected, and the click on the bridge icon has left that selection.
C13_Witness ==
  /\ probe.op = "handleClick"
  /\ probe.arg = IconPoint(0)
  /\ powerCounts["bridge"] = 0
  /\ selectedPower = "doorBreaker"
  /\ Len(passengers) >= 1
  /\ passengers[1].superPower = "bridge"

\* C14: a playfield click that assigns the selected ability gives it to the
\* agent nearest to the click among the active, unreached, ability-less
\* agents within 50 px of the click.
C14_NearestGetsAbility ==
  [][\A pt \in CrowdClickPoints :
       gameState = PLAYING /\ HandleClick(pt, LayoutA)
         => \A i \in 1..Len(passengers) :
              passengers[i].superPower = NoPower /\ passengers'[i].superPower # NoPower
                => \A j \in 1..Len(passengers) :
                     Assignable(passengers[j], pt.x, pt.y)
                       => (passengers[i].x - pt.x) * (passengers[i].x - pt.x)
                            + (passengers[i].y - pt.y) * (passengers[i].y - pt.y)
                          <= (passengers[j].x - pt.x) * (passengers[j].x - pt.x)
                            + (passengers[j].y - pt.y) * (passengers[j].y - pt.y)]_vars

\* C15: in every reachable state at most one of selectedPower and
\* selectedPassenger is non-null.
C15_OneSelection == selectedPower = NoPower \/ selectedPassenger = 0

\* C16: every level start, by the click in Menu and by the click in
\* LevelComplete, reinitialises the per-level state: no agents, counters 0,
\* no bridges, no selection, the initial inventory, the freshly generated
\* obstacles and the level timer at the current time.
C16_LevelStartResets ==
  [][lastOp' = "click" /\ gameState \in {MENU, LEVEL_COMPLETE}
       => /\ gameState' = PLAYING
          /\ passengers' = << >>
          /\ passengersSpawned' = 0
          /\ spawnTimer' = 0
          /\ bridges' = << >>
          /\ selectedPower' = NoPower
          /\ selectedPassenger' = 0
          /\ powerCounts' = initializePowerCounts
          /\ levelStartTime' = now
          /\ \E layout \in Layouts :
               /\ levelConfig' = generateLevelConfig(currentLevel', layout)
               /\ obstacles' = layout
               /\ checkInGate' = levelConfig'.checkInGate
               /\ platforms' = ObstacleBoxes(layout, 1, TRUE)
                                 \o << Box(0, groundLevel, canvas.width, Px(20)) >>
               /\ walls' = ObstacleBoxes(layout, 1, FALSE)]_vars

\* Level 2 has just been started from LevelComplete, after the clock has
\* advanced; level 1 was passed with an agent in the list.
C16_Witness ==
  /\ lastOp = "click"
  /\ gameState = PLAYING
  /\ currentLevel = 2
  /\ now = levelTimeLimit
  /\ levelStartTime = now
  /\ passengers = << >>
  /\ bridges = << >>

\* C17: currentLevel is always in 1..FinalLevel (10 in the code); every click
\* in Menu starts level 1; a click in LevelComplete starts currentLevel + 1;
\* Victory is entered only when levels 1..FinalLevel have been passed one
\* after the other since the last start from the menu.
C17_LevelNumbering ==
  [][/\ currentLevel' \in 1..FinalLevel
     /\ lastOp' = "click" /\ gameState = MENU
          => gameState' = PLAYING /\ currentLevel' = 1
     /\ lastOp' = "click" /\ gameState = LEVEL_COMPLETE
          => gameState' = PLAYING /\ currentLevel' = currentLevel + 1
     /\ gameState' = VICTORY
          => /\ currentLevel' = FinalLevel
             /\ passedLevels' = [k \in 1..FinalLevel |-> k]]_vars

\* Victory at the end of the last level, the clock having advanced on the way.
C17_Witness ==
  /\ gameState = VICTORY
  /\ lastOp = "update"
  /\ currentLevel = FinalLevel
  /\ passedLevels = [k \in 1..FinalLevel |-> k]
  /\ now = levelTimeLimit

\* an obstacle of type wall that is not classified as a platform
IsBarrier(o) == o.type = "wall" /\ o.width <= o.height

\* the agent's step of this tick brings its body onto the obstacle
Contact(p, o, dt) ==
  checkAABB(Box(p.x + p.direction * speed * dt, p.y, PassengerWidth, PassengerHeight),
            Box(o.x, o.y, o.width, o.height))

\* C18: when a doorBreaker agent (cooldown exhausted, not mid-activation)
\* comes into contact with a wall obstacle that is not a platform, at the end
\* of that tick the wall is in neither obstacles nor walls, the agent's
\* ability is none and its direction is as before the contact.
C18_BreakerPassesWall ==
  [][lastOp' = "update" /\ gameState = PLAYING
       => \A i \in 1..Len(passengers) : \A k \in 1..Len(obstacles) :
            /\ passengers[i].isActive /\ ~passengers[i].hasReachedGate
            /\ passengers[i].superPower = "doorBreaker"
            /\ passengers[i].powerCooldown <= 0 /\ ~passengers[i].isUsingPower
            /\ IsBarrier(obstacles[k])
            /\ \E dt \in DeltaTimes : Contact(passengers[i], obstacles[k], dt)
            => /\ \A m \in 1..Len(obstacles') : obstacles'[m].id # obstacles[k].id
               /\ \A m \in 1..Len(walls') :
                    walls'[m] # Box(obstacles[k].x, obstacles[k].y,
                                    obstacles[k].width, obstacles[k].height)
               /\ passengers'[i].superPower = NoPower
               /\ passengers'[i].direction = passengers[i].direction]_vars

\* the agent at index i as Passenger.update leaves it in this tick, before
\* the engine looks for its obstacle encounters
Moved(i, dt) ==
  PassengerUpdate(passengers[i], dt, buildPlatformsAndWalls(Eng).platforms,
                  buildPlatformsAndWalls(Eng).walls, checkInGate.x, checkInGate.y)

\* the leading foot of p is inside the gap o
FootInGap(p, o) ==
  /\ o.type = "gap"
  /\ p.x + (IF p.direction = 1 THEN PassengerWidth ELSE 0) >= o.x
  /\ p.x + (IF p.direction = 1 THEN PassengerWidth ELSE 0) <= o.x + o.width
  /\ p.y + PassengerHeight >= o.y
  /\ p.y + PassengerHeight <= o.y + o.height

\* a gap encounter of the agent at index i in this tick
GapEncounter(i, dt) ==
  \E k \in 1..Len(obstacles) :
     FootInGap(Moved(i, dt), obstacles[k]) /\ ~hasBridge(bridges, obstacles[k])

\* C19: in a tick in which an ability-less agent has its leading foot inside
\* a gap that no bridge spans, at the end of the tick its direction is the
\* opposite of the one it had when the encounter was detected, its isFalling
\* flag is true, and obstacles and bridges are unchanged.
C19_GapTurnsBack ==
  [][lastOp' = "update" /\ gameState = PLAYING /\ now - levelStartTime < levelTimeLimit
       => \A dt \in DeltaTimes : \A i \in 1..Len(passengers) :
            /\ passengers[i].isActive /\ ~passengers[i].hasReachedGate
            /\ passengers[i].superPower = NoPower
            /\ GapEncounter(i, dt)
            => /\ passengers'[i].direction = 0 - Moved(i, dt).direction
               /\ passengers'[i].isFalling
               /\ obstacles' = obstacles
               /\ bridges' = bridges]_vars

\* the leading foot of p lies in the span of the gap that bridge b was built
\* over, at the height of that gap
FootOverBridge(p, b) ==
  /\ p.x + (IF p.direction = 1 THEN PassengerWidth ELSE 0) >= b.x
  /\ p.x + (IF p.direction = 1 THEN PassengerWidth ELSE 0) <= b.x + b.width
  /\ p.y + PassengerHeight >= b.y - Px(10)
  /\ p.y + PassengerHeight <= b.y + Px(10)

\* C20: once a bridge is built over a gap, an agent whose leading foot lies
\* in that gap's span in a later tick is neither reversed nor flagged as
\* falling by the gap handling of that tick.
C20_BridgedGapIsQuiet ==
  [][lastOp' = "update" /\ gameState = PLAYING /\ now - levelStartTime < levelTimeLimit
       => \A dt \in DeltaTimes : \A i \in 1..Len(passengers) : \A n \in 1..Len(bridges) :
            /\ passengers[i].isActive /\ ~passengers[i].hasReachedGate
            /\ FootOverBridge(Moved(i, dt), bridges[n])
            => /\ passengers'[i].direction = Moved(i, dt).direction
               /\ passengers'[i].isFalling = Moved(i, dt).isFalling]_vars

\* The second agent of the crowd, without ability, is falling with its
\* leading foot at (434, 185), inside the spans of gap_0 and gap_1, after the
\* first agent has built the bridge over gap_0; it still heads right.
C20_Witness ==
  /\ lastOp = "update"
  /\ Len(passengers) = 2
  /\ Len(bridges) = 1
  /\ bridges[1].x = Px(345)
  /\ passengers[1].powerCooldown < PowerCooldown
  /\ passengers[2].superPower = NoPower
  /\ passengers[2].x = Px(410)
  /\ passengers[2].y + PassengerHeight = groundLevel - Px(30)
  /\ FootOverBridge(passengers[2], bridges[1])
  /\ passengers[2].direction = 1
  /\ \E k \in 1..Len(obstacles) : obstacles[k].id = "gap_1"

\* C21: within a level attempt the bridge list only grows: every update,
\* click and pause keeps the existing bridges, unaltered and in place, except
\* the click that starts a level, which empties the list; and in every tick
\* that steps the agents, each bridge that existed before the tick is in the
\* platform collection the agents are stepped with.
C21_BridgesOnlyGrow ==
  [][/\ \/ /\ Len(bridges') >= Len(bridges)
           /\ SubSeq(bridges', 1, Len(bridges)) = bridges
        \/ /\ lastOp' = "click"
           /\ gameState \in {MENU, LEVEL_COMPLETE}
           /\ gameState' = PLAYING
           /\ bridges' = << >>
     /\ lastOp' = "update" /\ gameState = PLAYING /\ now - levelStartTime < levelTimeLimit
          => \A n \in 1..Len(bridges) :
               \E m \in 1..Len(platforms') :
                  platforms'[m] = Box(bridges[n].x, bridges[n].y, bridges[n].width, Px(10))]_vars

\* A tick of a level in which a bridge had been built earlier: the bridge
\* is still there and the agents were stepped with its platform.
C21_Witness ==
  /\ lastOp = "update"
  /\ gameState = PLAYING
  /\ Len(bridges) = 1
  /\ \E m \in 1..Len(platforms) :
        platforms[m] = Box(bridges[1].x, bridges[1].y, bridges[1].width, Px(10))

\* the agent p stands on the ground platform
OnGround(p) == p.y + PassengerHeight = groundLevel /\ ~p.isFalling

\* the leading foot of p lies in the horizontal span of the gap o
FootInSpan(p, o) ==
  /\ o.type = "gap"
  /\ p.x + (IF p.direction = 1 THEN PassengerWidth ELSE 0) >= o.x
  /\ p.x + (IF p.direction = 1 THEN PassengerWidth ELSE 0) <= o.x + o.width

\* C22: an agent without the bridge ability that walks along the ground into
\* the horizontal span of a gap that no bridge spans does not stay supported
\* at ground level in that tick: it falls.
C22_GapDropsWalker ==
  [][lastOp' = "update" /\ gameState = PLAYING /\ now - levelStartTime < levelTimeLimit
       => \A dt \in DeltaTimes : \A i \in 1..Len(passengers) : \A k \in 1..Len(obstacles) :
            /\ passengers[i].isActive /\ ~passengers[i].hasReachedGate
            /\ passengers[i].superPower # "bridge"
            /\ OnGround(passengers[i])
            /\ FootInSpan(Moved(i, dt), obstacles[k])
            /\ ~hasBridge(bridges, obstacles[k])
            => ~OnGround(passengers'[i])]_vars

\* C23: no active agent ends a tick with its foot line more than 5 px below
\* the top of the ground platform, whatever height it fell from.
C23_GroundCatches ==
  \A i \in 1..Len(passengers) :
     passengers[i].isActive
        => passengers[i].y + PassengerHeight <= groundLevel + Px(5)

\* C24: a level in the Playing state eventually reaches GameOver,
\* LevelComplete or Victory, provided update keeps being called while the
\* game is Playing, the wall clock advances and a paused game is resumed
\* (the clock of the model stops at MaxNow: the levels meant are those whose
\* time limit ends by then).
C24_LevelEnds ==
  (gameState = PLAYING /\ levelStartTime + levelTimeLimit <= MaxNow)
     ~> (gameState \in {GAME_OVER, LEVEL_COMPLETE, VICTORY})

\* A level ended by the clock after it had been paused on the way, with the
\* agent still held up by the wall.
C24_Witness ==
  /\ gameState = GAME_OVER
  /\ lastOp = "update"
  /\ now - levelStartTime >= levelTimeLimit
  /\ played < now - levelStartTime
  /\ ActiveCount(passengers) > 0
  /\ \E i \in 1..Len(passengers) : passengers[i].x = Px(275)

\* the sides of a box
Left(b) == b.x
Right(b) == b.x + b.width
Top(b) == b.y
Bottom(b) == b.y + b.height

\* C25: checkAABB(a, b) is true exactly when each box begins strictly before
\* the other ends on both axes, so that boxes which only touch along an edge
\* or at a corner do not intersect; and checkAABB(a, b) = checkAABB(b, a).
C25_StrictOverlap ==
  probe.op = "checkAABB"
    => LET a == probe.pre
           b == probe.arg
       IN /\ probe.ret <=> /\ Left(a) < Right(b) /\ Left(b) < Right(a)
                           /\ Top(a) < Bottom(b) /\ Top(b) < Bottom(a)
          /\ (Right(a) = Left(b) \/ Right(b) = Left(a)
                \/ Bottom(a) = Top(b) \/ Bottom(b) = Top(a)) => ~probe.ret
          /\ probe.ret = checkAABB(b, a)

\* Two boxes of different sizes that share an edge: the second begins where
\* the first ends, and their vertical extents overlap.
C25_Witness ==
  /\ probe.op = "checkAABB"
  /\ Right(probe.pre) = Left(probe.arg)
  /\ Top(probe.pre) < Bottom(probe.arg)
  /\ Top(probe.arg) < Bottom(probe.pre)
  /\ probe.pre.height # probe.arg.height
  /\ ~probe.ret

\* the ability that deals with obstacles of type t
AbilityFor(t) ==
  CASE t = "door" -> "doorBreaker"
    [] t \in {"security", "securityGuard"} -> "securityBriber"
    [] t = "gap" -> "bridge"
    [] OTHER -> NoPower

\* the agent p can activate its ability
CanActivate(p) == p.superPower # NoPower /\ p.powerCooldown <= 0 /\ ~p.isUsingPower

\* C26: in an obstacle encounter of the engine in which the agent holds the
\* ability matching the obstacle (a gap being spanned by no bridge) and the
\* activation succeeds, that obstacle and no other leaves the obstacle list;
\* for a gap exactly one bridge is appended, with the gap's x and width, and
\* for the other kinds the bridges stay; the agent's direction is unchanged.
C26_MatchedEncounter ==
  [][\A k \in 1..Len(obstacles) :
       /\ CallHandleObstacleInteraction(k)
       /\ passengers[1].superPower = AbilityFor(obstacles[k].type)
       /\ CanActivate(passengers[1])
       /\ obstacles[k].type = "gap" => ~hasBridge(bridges, obstacles[k])
       => /\ obstacles' = SubSeq(obstacles, 1, k - 1) \o SubSeq(obstacles, k + 1, Len(obstacles))
          /\ IF obstacles[k].type = "gap"
               THEN /\ Len(bridges') = Len(bridges) + 1
                    /\ SubSeq(bridges', 1, Len(bridges)) = bridges
                    /\ bridges'[Len(bridges')].x = obstacles[k].x
                    /\ bridges'[Len(bridges')].width = obstacles[k].width
               ELSE bridges' = bridges
          /\ passengers'[1].direction = passengers[1].direction]_vars

\* A bridge builder heading left has met the second floor gap: the gap is
\* gone, the first gap is still there, the bridge lies over the second.
C26_Witness ==
  /\ probe.op = "handleObstacleInteraction"
  /\ probe.arg.id = "gap_1"
  /\ probe.pre.superPower = "bridge"
  /\ probe.ret
  /\ probe.post.direction = 0 - 1
  /\ Len(bridges) = 1
  /\ bridges[1].x = Px(400)
  /\ \A m \in 1..Len(obstacles) : obstacles[m].id # "gap_1"
  /\ \E m \in 1..Len(obstacles) : obstacles[m].id = "gap_0"

\* an obstacle the look-ahead test is about: a wall or door that stands as a
\* barrier, not as a platform
IsBreakable(o) == o.type \in {"wall", "door"} /\ o.width <= o.height

\* C27: an agent holding the wall-breaking ability, able to activate it, is
\* never turned round by a wall or door in its path: in the tick in which
\* its step would bring it onto the obstacle, the obstacle is removed before
\* the agent moves, so at the end of the tick the agent heads as before and
\* the obstacle is gone.
C27_BreakerNotTurned ==
  [][lastOp' = "update" /\ gameState = PLAYING /\ now - levelStartTime < levelTimeLimit
       => \A i \in 1..Len(passengers) : \A k \in 1..Len(obstacles) :
            /\ passengers[i].isActive /\ ~passengers[i].hasReachedGate
            /\ passengers[i].superPower = "doorBreaker"
            /\ passengers[i].powerCooldown <= 0 /\ ~passengers[i].isUsingPower
            /\ IsBreakable(obstacles[k])
            /\ \E dt \in DeltaTimes : Contact(passengers[i], obstacles[k], dt)
            => /\ passengers'[i].direction = passengers[i].direction
               /\ \A m \in 1..Len(obstacles') : obstacles'[m].id # obstacles[k].id]_vars

\* the elements of a list
Range(s) == {s[m] : m \in 1..Len(s)}

\* C28: at the end of every update call that steps the agents, the walls are
\* exactly the boxes of the solid obstacles then in the obstacle list that
\* are not wider than high, and the platforms are exactly the boxes of the
\* solid obstacles that are wider than high, the ground platform and one
\* platform per bridge.
C28_DerivedView ==
  [][lastOp' = "update" /\ gameState = PLAYING /\ now - levelStartTime < levelTimeLimit
       => /\ Range(walls') = Range(ObstacleBoxes(obstacles', 1, FALSE))
          /\ Range(platforms')
               = Range(ObstacleBoxes(obstacles', 1, TRUE))
                   \cup {Box(0, groundLevel, canvas.width, Px(20))}
                   \cup Range(BridgePlatforms(bridges', 1))]_vars

\* the obstacle o is one that tryActivatePowerAtPosition accepts for the
\* agent p and a click at pt: within 100 px of the click and of the kind of
\* the agent's ability
InReach(p, o, pt) ==
  /\ Within(pt.x - (o.x + o.width \div 2), pt.y - (o.y + o.height \div 2), Px(100))
  /\ PowerMatches(p.superPower, o.type)

\* C29: when a click leads to a successful activateSuperPower of an agent
\* for an obstacle of its ability's kind within 100 px of the click, an
\* obstacle in reach is removed from the obstacle set (a gap is bridged),
\* the agent's ability becomes none, its direction stays, and
\* selectedPassenger becomes null.
C29_ManualActivation ==
  [][\A pt \in ClickPoints :
       gameState = PLAYING /\ HandleClick(pt, LayoutA)
         => \A i \in 1..Len(passengers) :
              used'[i] > used[i]
                => /\ \E k \in 1..Len(obstacles) :
                        /\ InReach(passengers[i], obstacles[k], pt)
                        /\ \A m \in 1..Len(obstacles') : obstacles'[m].id # obstacles[k].id
                        /\ obstacles[k].type = "gap" => hasBridge(bridges', obstacles[k])
                   /\ passengers'[i].superPower = NoPower
                   /\ passengers'[i].direction = passengers[i].direction
                   /\ selectedPassenger' = 0]_vars

\* C30: an agent that holds an ability it has not used since the ability
\* was assigned (in particular one assigned by the player after an earlier
\* ability was consumed and cleared) can use it once its cooldown has
\* elapsed: activateSuperPower succeeds, isUsingPower being false again by
\* then.
C30_ReassignedUsable ==
  \A i \in 1..Len(passengers) :
     /\ passengers[i].isActive /\ ~passengers[i].hasReachedGate
     /\ passengers[i].superPower # NoPower
     /\ used[i] = 0
     /\ passengers[i].powerCooldown <= 0
     => activateSuperPower(passengers[i]).ret

\* the obstacle o is a wall that the engine classifies as a platform
IsPlatformWall(o) == o.type = "wall" /\ o.width > o.height

C32_InactiveOnlyAtGate ==
  [][/\ \A i \in 1..Len(passengers') :
          passengers'[i].isActive <=> ~passengers'[i].hasReachedGate
     /\ (/\ lastOp' = "update" /\ gameState = PLAYING
         /\ now - levelStartTime < levelTimeLimit
         /\ passengersSpawned' >= totalPassengers
         /\ ActiveCount(passengers') = 0)
          => /\ ReachedCount(passengers') = totalPassengers
             /\ gameState' # GAME_OVER
     /\ (gameState # GAME_OVER /\ gameState' = GAME_OVER)
          => /\ lastOp' = "update"
             /\ now - levelStartTime >= levelTimeLimit]_vars

\* The win check has fired at the final level: every agent spawned is
\* inactive and has reached the gate.
C32_Witness ==
  /\ gameState = VICTORY
  /\ lastOp = "update"
  /\ Len(passengers) = totalPassengers
  /\ \A i \in 1..Len(passengers) : ~passengers[i].isActive /\ passengers[i].hasReachedGate

\* the direction from x towards the gate
Toward(x) == IF checkInGate.x - x > 0 THEN 1 ELSE 0 - 1

\* C33: no agent walks away from the gate: for every active agent more than
\* 10 px away from the gate's x, an update call leaves its x unchanged or
\* moves it towards the gate's x by speed * dt, whatever direction the
\* obstacle encounters of earlier ticks left it with.
C33_NeverAwayFromGate ==
  [][lastOp' = "update"
       => \A i \in 1..Len(passengers) :
            /\ passengers[i].isActive /\ ~passengers[i].hasReachedGate
            /\ Abs(checkInGate.x - passengers[i].x) > Px(10)
            => \/ passengers'[i].x = passengers[i].x
               \/ \E dt \in DeltaTimes :
                    passengers'[i].x
                      = passengers[i].x + Toward(passengers[i].x) * speed * dt]_vars

\* An agent just stepped towards the gate (its velocity points there) and
\* then turned round by an obstacle met in the same tick: it enters the next
\* tick facing away from the gate, more than 10 px from it.
C33_Witness ==
  /\ lastOp = "update"
  /\ gameState = PLAYING
  /\ \E i \in 1..Len(passengers) :
       /\ passengers[i].isActive /\ ~passengers[i].hasReachedGate
       /\ checkInGate.x - passengers[i].x > Px(10)
       /\ passengers[i].direction = 0 - 1
       /\ passengers[i].vx = speed
       /\ passengers[i].x > levelConfig.spawnPoint.x

\* the box of the agent p displaced to x
BoxAt(p, x) == Box(x, p.y, PassengerWidth, PassengerHeight)

\* the facing Passenger.update chooses for p at the start of a tick
Facing(p) ==
  IF Abs(checkInGate.x - p.x) > Px(10) THEN Toward(p.x) ELSE p.direction

SnapsOn(p, x, pl, dt) ==
  /\ x + PassengerWidth > pl.x
  /\ x < pl.x + pl.width
  /\ p.y + PassengerHeight >= pl.y - Px(2)
  /\ p.y + PassengerHeight <= pl.y + Px(5)
  /\ p.vy + 5 * dt >= 0

\* C35: in the vertical move of Passenger.update, if the snap condition
\* holds for some platform, the first such platform in list order wins: the
\* agent ends the call on top of it (y = platform.y - height) with vertical
\* velocity 0 and isFalling false, no push-out against another platform or a
\* wall being applied on top of the snap.
C35_FirstSnapWins ==
  (probe.op = "update" /\ probe.pre.isActive /\ ~probe.pre.hasReachedGate)
    => \A m \in 1..Len(platforms) :
         /\ SnapsOn(probe.pre, probe.post.x, platforms[m], probe.arg.dt)
         /\ \A j \in 1..(m - 1) :
               ~SnapsOn(probe.pre, probe.post.x, platforms[j], probe.arg.dt)
         => /\ probe.post.y = platforms[m].y - PassengerHeight
            /\ probe.post.vy = 0
            /\ ~probe.post.isFalling

\* the box the vertical move of Passenger.update tests: the agent p at its
\* new x, lowered by the displacement of the tick
TestBoundsY(p, x, dt) ==
  Box(x, p.y + (p.vy + 5 * dt) * dt, PassengerWidth, PassengerHeight)

\* a contact of the vertical move that resets the vertical velocity: a
\* platform snapped to, a platform hit from below, or a wall in the test box
VerticalContact(p, x, dt) ==
  \/ \E m \in 1..Len(platforms) : SnapsOn(p, x, platforms[m], dt)
  \/ \E m \in 1..Len(platforms) :
        /\ checkAABB(TestBoundsY(p, x, dt), platforms[m])
        /\ p.vy + 5 * dt < 0
  \/ \E m \in 1..Len(walls) : checkAABB(TestBoundsY(p, x, dt), walls[m])

\* C36: after every update of an active agent that has not reached the gate,
\* its vertical velocity is the previous one plus gravity * dt (500 px/s^2),
\* or it is exactly 0 and a platform or wall contact of that tick has reset
\* it; no other value occurs.
C36_VerticalVelocity ==
  (probe.op = "update" /\ probe.pre.isActive /\ ~probe.pre.hasReachedGate)
    => \/ probe.post.vy = probe.pre.vy + 5 * probe.arg.dt
       \/ /\ probe.post.vy = 0
          /\ VerticalContact(probe.pre, probe.post.x, probe.arg.dt)

\* A landing: the agent came down with the speed of five ticks of gravity
\* and the platform it reached has reset its vertical velocity.
C36_Witness ==
  /\ probe.op = "update"
  /\ probe.pre.isActive /\ ~probe.pre.hasReachedGate
  /\ probe.pre.isFalling
  /\ probe.pre.vy = 5 * 5 * MaxDeltaTime
  /\ probe.post.vy = 0
  /\ ~probe.post.isFalling

\* C37: the ability cooldown of an agent is never negative: whatever the
\* activations and the frame times of the updates, it stays between 0 and
\* 2 s.
C37_CooldownRange ==
  \A i \in 1..Len(passengers) :
     passengers[i].powerCooldown >= 0 /\ passengers[i].powerCooldown <= PowerCooldown

\* C38: while Playing, at most one agent is spawned per update call, and the
\* k-th agent (k up to the cap) has been spawned once the frame times of the
\* update calls made since the level started add up to k * 0.5 s, whatever
\* the frame times are.
C38_SpawnSchedule ==
  [][(lastOp' = "update" /\ gameState = PLAYING)
       => /\ passengersSpawned' <= passengersSpawned + 1
          /\ \A k \in 1..totalPassengers :
                played' >= k * spawnInterval => passengersSpawned' >= k]_vars

\* the smaller of the two overlaps of the boxes a and b along x, and along y
MinOverlapX(a, b) == Min(Right(a) - Left(b), Right(b) - Left(a))
MinOverlapY(a, b) == Min(Bottom(a) - Top(b), Bottom(b) - Top(a))

\* C39: for two intersecting boxes, resolveCollision changes exactly one
\* coordinate of the entity: x when the smaller horizontal overlap is
\* strictly less than the smaller vertical overlap, y otherwise (ties
\* included); it sets collisionX in the first case and collisionY in the
\* second, never both; and at the position returned the entity's box does
\* not intersect the obstacle's box under checkAABB.
C39_PushOut ==
  (probe.op = "resolveCollision" /\ checkAABB(probe.pre, probe.arg))
    => /\ IF MinOverlapX(probe.pre, probe.arg) < MinOverlapY(probe.pre, probe.arg)
            THEN /\ probe.post.x # probe.pre.x /\ probe.post.y = probe.pre.y
                 /\ probe.post.collisionX /\ ~probe.post.collisionY
            ELSE /\ probe.post.y # probe.pre.y /\ probe.post.x = probe.pre.x
                 /\ probe.post.collisionY /\ ~probe.post.collisionX
       /\ ~checkAABB(Box(probe.post.x, probe.post.y, probe.pre.width, probe.pre.height),
                     probe.arg)

\* Two intersecting boxes of different sizes whose overlaps are the same on
\* both axes: the entity was pushed out along y, downwards.
C39_Witness ==
  /\ probe.op = "resolveCollision"
  /\ checkAABB(probe.pre, probe.arg)
  /\ probe.pre.width # probe.arg.width
  /\ MinOverlapX(probe.pre, probe.arg) = MinOverlapY(probe.pre, probe.arg)
  /\ probe.post.collisionY
  /\ probe.post.y = Bottom(probe.arg)

=============================================================================
